---- MODULE Spec2Model ----
(***************************************************************************)
(* Match-formation and court-lifecycle engine of the badminton scheduler   *)
(* (component BadmintonScheduler, the version with manual court            *)
(* enable/disable and cumulative played counts).                           *)
(*                                                                         *)
(* Conventions.                                                            *)
(*  - JavaScript arrays are sequences; indices are 1-based here, 0-based   *)
(*    in the source.                                                       *)
(*  - A court's optional team is a sequence of length 0 (team undefined)   *)
(*    or 1 (the team array, which may itself be the empty array []: an     *)
(*    empty array is truthy in JavaScript and differs from undefined).     *)
(*  - Objects used as maps (playedCount, lastTeamSigByPlayer) are          *)
(*    functions whose DOMAIN is the set of keys present.                   *)
(*  - restOnce and disabledCourtsOnce are arrays in the source that are    *)
(*    only read through includes / filter / new Set, and never hold an     *)
(*    element twice through the handlers; they are sets here.              *)
(*  - The state is passed to the handlers as a record st, so that the      *)
(*    functional updaters a handler queues apply one after the other,      *)
(*    while values read from the closure are those of the state the        *)
(*    handler started in.                                                  *)
(***************************************************************************)
EXTENDS Integers, Sequences, FiniteSets, TLC

VARIABLES
    participants,          \* waiting pool, ordered
    teamQueue,             \* queued teams, ordered
    courts,                \* sequence of [id, name, team]
    lastTeamSigByPlayer,   \* name -> signature of the team last seated
    priorityCarry,         \* carry-over of the previous formation run
    restOnce,              \* names excluded from the next formation run
    playedCount,           \* name -> completed matches
    disabledCourtsOnce,    \* ids of the manually disabled courts
    last,                  \* the command that produced this state
    budget                 \* commands the exploration may still issue

vars == <<participants, teamQueue, courts, lastTeamSigByPlayer, priorityCarry,
          restOnce, playedCount, disabledCourtsOnce, last, budget>>

-----------------------------------------------------------------------------
(* Bounds of the exploration *)

MaxSteps == 3

MaxMoveSteps == 2

MaxPlayed == 3

MaxWaiting == 6

MaxQueue == 3

MaxReshuffle == 1

\* The longest list of names teamSignature is called on.
MaxGroup == 4

\* The most items weightedSampleWithoutReplacement is asked for.
MaxDraw == 5

\* The most generic teams newTeamsInOrder is called on.
MaxNewTeams == 3

-----------------------------------------------------------------------------
(* Names *)

\* The names of the exploration, in localeCompare order.
NameOrder ==
    <<"a", "A", "a|b", "b", "b|c", "c", "d", "e", "f", "g", "h", "i", "j", "k", "l">>

Names == {NameOrder[i] : i \in 1..Len(NameOrder)}

\* The value of an array slot that was never written (a hole) or holds undefined.
Undefined == "undefined"

TeamSize == 4

Range(s) == {s[i] : i \in 1..Len(s)}

RemoveAt(s, i) == [j \in 1..(Len(s) - 1) |-> IF j < i THEN s[j] ELSE s[j + 1]]

InsertAt(s, i, x) ==
    [j \in 1..(Len(s) + 1) |-> IF j < i THEN s[j] ELSE IF j = i THEN x ELSE s[j - 1]]

Filter(s, S) == SelectSeq(s, LAMBDA x : x \in S)

Without(s, S) == SelectSeq(s, LAMBDA x : x \notin S)

NoTeam == <<>>

HasTeam(c) == c.team # NoTeam

TeamOf(c) == c.team[1]

\* `코트 ${i}`
DefaultName(i) == "court " \o ToString(i)

-----------------------------------------------------------------------------
(* Pure helpers *)

\* a.localeCompare(b) < 0 for the names used; Array.prototype.sort places
\* undefined after every defined element.
Rank(n) == IF n = Undefined THEN Len(NameOrder) + 1
           ELSE CHOOSE i \in 1..Len(NameOrder) : NameOrder[i] = n

localeCompare(a, b) == Rank(a) - Rank(b)

RECURSIVE InsertSorted(_, _)
InsertSorted(n, s) ==
    IF s = <<>> THEN <<n>>
    ELSE IF localeCompare(n, Head(s)) < 0 THEN <<n>> \o s
    ELSE <<Head(s)>> \o InsertSorted(n, Tail(s))

RECURSIVE SortNames(_)
SortNames(team) ==
    IF team = <<>> THEN <<>>
    ELSE InsertSorted(team[Len(team)], SortNames(SubSeq(team, 1, Len(team) - 1)))

\* Array.prototype.join writes undefined as the empty string.
RECURSIVE Join(_)
Join(s) ==
    IF s = <<>> THEN ""
    ELSE IF Len(s) = 1 THEN (IF s[1] = Undefined THEN "" ELSE s[1])
    ELSE (IF s[1] = Undefined THEN "" ELSE s[1]) \o "|" \o Join(Tail(s))

teamSignature(team) == Join(SortNames(team))

\* isExactRepeatTeamWithMap, were a team of any size a repeat.
repeatOfAnySize(team, map) ==
    \A i \in 1..Len(team) :
        /\ team[i] \in DOMAIN map
        /\ map[team[i]] = teamSignature(team)

isExactRepeatTeamWithMap(team, map) ==
    /\ Len(team) = TeamSize
    /\ \A i \in 1..Len(team) :
          /\ team[i] \in DOMAIN map
          /\ map[team[i]] = teamSignature(team)

\* The updater queued by markTeamAsStarted, applied to the map.
markTeamAsStarted(map, team) ==
    [n \in (DOMAIN map) \cup Range(team) |->
        IF n \in Range(team) THEN teamSignature(team) ELSE map[n]]

ReplaceAt(s, i, x) == [s EXCEPT ![i] = x]

\* tryBreak: null is <<>>, a result is <<[group, tail]>>.
tryBreak(group, tail, map) ==
    LET ok == {p \in (1..Len(group)) \X (1..Len(tail)) :
                  ~isExactRepeatTeamWithMap(ReplaceAt(group, p[1], tail[p[2]]), map)}
    IN  IF ok = {} THEN <<>>
        ELSE LET gi == CHOOSE g \in {p[1] : p \in ok} : \A p \in ok : g <= p[1]
                 tj == CHOOSE t \in {p[2] : p \in {q \in ok : q[1] = gi}} :
                          \A p \in {q \in ok : q[1] = gi} : t <= p[2]
             IN  <<[group |-> ReplaceAt(group, gi, tail[tj]),
                    tail  |-> ReplaceAt(tail, tj, group[gi])]>>

getCount(counts, name) == IF name \in DOMAIN counts THEN counts[name] ELSE 0

\* weightOf(name) = 1 / (getCount(name) + 1), kept as the denominator of a unit fraction.
weightDenominator(counts, name) == getCount(counts, name) + 1

\* weightedPickIndex: with r = Math.random() * total, index i is returned when the
\* running sum first reaches r; every index whose weight is positive can be drawn.
weightedPickIndex(items, counts) ==
    {i \in 1..Len(items) : weightDenominator(counts, items[i]) > 0}

\* weightedSampleWithoutReplacement: every [picked, pool] the draws can give.
RECURSIVE SampleLoop(_, _, _, _)
SampleLoop(pool, picked, k, counts) ==
    IF ~(Len(pool) > 0 /\ Len(picked) < k) THEN {[picked |-> picked, pool |-> pool]}
    ELSE UNION {SampleLoop(RemoveAt(pool, i), Append(picked, pool[i]), k, counts) :
                  i \in weightedPickIndex(pool, counts)}

\* weightedSampleWithoutReplacement, were a picked item left in the pool.
sampleKeepsPicked(list, k, counts) ==
    {[picked |-> s.picked,
      pool |-> IF s.picked = <<>> THEN s.pool ELSE <<s.picked[1]>> \o s.pool] :
        s \in SampleLoop(list, <<>>, k, counts)}

weightedSampleWithoutReplacement(list, k, counts) == SampleLoop(list, <<>>, k, counts)

\* shuffle (Fisher-Yates): every permutation of arr.
shuffle(arr) ==
    {[i \in 1..Len(arr) |-> arr[f[i]]] : f \in Permutations(1..Len(arr))}

SumCounts(counts, team) ==
    LET RECURSIVE Sum(_)
        Sum(i) == IF i = 0 THEN 0 ELSE getCount(counts, team[i]) + Sum(i - 1)
    IN  Sum(Len(team))

\* avgCount(a) - avgCount(b) < 0, the averages compared by cross-multiplication;
\* an empty team averages Infinity.
avgLess(counts, a, b) ==
    IF Len(a) = 0 THEN FALSE
    ELSE IF Len(b) = 0 THEN TRUE
    ELSE SumCounts(counts, a) * Len(b) < SumCounts(counts, b) * Len(a)

\* sortByAvg, were the teams left in the order they were drawn in.
leftAsDrawn(counts, teams) == teams

\* [...teams].sort((a, b) => avgCount(a) - avgCount(b)): a stable sort.
RECURSIVE InsertByAvg(_, _, _)
InsertByAvg(counts, t, s) ==
    IF s = <<>> THEN <<t>>
    ELSE IF ~avgLess(counts, Head(s), t) THEN <<t>> \o s
    ELSE <<Head(s)>> \o InsertByAvg(counts, t, Tail(s))

RECURSIVE sortByAvg(_, _)
sortByAvg(counts, teams) ==
    IF teams = <<>> THEN <<>>
    ELSE InsertByAvg(counts, Head(teams), sortByAvg(counts, Tail(teams)))

\* mergeRestOnceBack, were the resting players put back in reverse.
mergeRestOnceReversed(participantsBefore, restOnceList) ==
    LET kept == Filter(participantsBefore, restOnceList)
    IN  [i \in 1..Len(kept) |-> kept[Len(kept) + 1 - i]]

mergeRestOnceBack(participantsBefore, restOnceList) == Filter(participantsBefore, restOnceList)

\* ensureCountsFor, were the count of every given name set to 0.
resetCountsFor(counts, names) ==
    [n \in (DOMAIN counts) \cup names |-> IF n \in names THEN 0 ELSE counts[n]]

ensureCountsFor(counts, names) ==
    [n \in (DOMAIN counts) \cup names |-> IF n \in DOMAIN counts THEN counts[n] ELSE 0]

isCourtDisabled(st, courtId) == courtId \in st.disabledCourtsOnce

\* courts.findIndex((c) => c.id === courtId); 0 stands for -1.
findIndex(cs, courtId) ==
    IF \E i \in 1..Len(cs) : cs[i].id = courtId
    THEN CHOOSE i \in 1..Len(cs) : cs[i].id = courtId /\ \A j \in 1..(i - 1) : cs[j].id # courtId
    ELSE 0

\* String.prototype.toLowerCase on the names used.
toLowerCase(n) == IF n = "A" THEN "a" ELSE n

RECURSIVE uniqueLoop(_, _, _)
uniqueLoop(list, seen, out) ==
    IF list = <<>> THEN out
    ELSE IF toLowerCase(Head(list)) \in seen THEN uniqueLoop(Tail(list), seen, out)
    ELSE uniqueLoop(Tail(list), seen \cup {toLowerCase(Head(list))}, Append(out, Head(list)))

uniquePreserveOrder(list) == uniqueLoop(list, {}, <<>>)

\* Math.max(0, Math.min(32, Number(courtCountInput) || 0))
MaxCourtCount == 32

clampCourtCount(k) == IF k < 0 THEN 0 ELSE IF k > MaxCourtCount THEN MaxCourtCount ELSE k

-----------------------------------------------------------------------------
(* The state as a record, and the handlers as functions of it *)

State ==
    [participants |-> participants, teamQueue |-> teamQueue, courts |-> courts,
     lastTeamSigByPlayer |-> lastTeamSigByPlayer, priorityCarry |-> priorityCarry,
     restOnce |-> restOnce, playedCount |-> playedCount,
     disabledCourtsOnce |-> disabledCourtsOnce]

EmptyMap == [n \in {} |-> 0]

InitialCourts == <<[id |-> 1, name |-> DefaultName(1), team |-> NoTeam],
                   [id |-> 2, name |-> DefaultName(2), team |-> NoTeam]>>

InitialState ==
    [participants |-> <<>>, teamQueue |-> <<>>, courts |-> InitialCourts,
     lastTeamSigByPlayer |-> EmptyMap, priorityCarry |-> <<>>,
     restOnce |-> {}, playedCount |-> EmptyMap, disabledCourtsOnce |-> {}]

RECURSIVE FlattenTeams(_)
FlattenTeams(teams) == IF teams = <<>> THEN <<>> ELSE Head(teams) \o FlattenTeams(Tail(teams))

CourtTeams(cs) ==
    LET RECURSIVE Collect(_)
        Collect(i) == IF i > Len(cs) THEN <<>>
                      ELSE (IF HasTeam(cs[i]) THEN <<TeamOf(cs[i])>> ELSE <<>>) \o Collect(i + 1)
    IN  Collect(1)

getAllNamesSet(st) ==
    Range(st.participants) \cup Range(FlattenTeams(st.teamQueue))
        \cup Range(FlattenTeams(CourtTeams(st.courts))) \cup Range(st.priorityCarry)

addNamesNewOnly(st, list) ==
    LET newOnes == Without(uniquePreserveOrder(list), getAllNamesSet(st))
    IN  IF newOnes = <<>> THEN st
        ELSE [st EXCEPT !.participants = @ \o newOnes,
                        !.playedCount = ensureCountsFor(@, Range(newOnes))]

\* handleConfirmNames, were the queue kept.
confirmKeepsQueue(st, list) ==
    LET uniq == uniquePreserveOrder(list)
    IN  [st EXCEPT !.participants = uniq,
                   !.playedCount = ensureCountsFor(@, Range(uniq)),
                   !.priorityCarry = <<>>,
                   !.restOnce = {}]

handleConfirmNames(st, list) ==
    LET uniq == uniquePreserveOrder(list)
    IN  [st EXCEPT !.participants = uniq,
                   !.playedCount = ensureCountsFor(@, Range(uniq)),
                   !.teamQueue = <<>>,
                   !.priorityCarry = <<>>,
                   !.restOnce = {}]

\* applyCourtCount, were the displaced teams queued behind the waiting teams.
applyCourtCountQueuesLast(st, n) ==
    LET len == Len(st.courts) IN
    IF n = len THEN st
    ELSE IF n > len
    THEN [st EXCEPT !.courts =
            [i \in 1..n |-> IF i <= len THEN st.courts[i]
                            ELSE [id |-> i, name |-> DefaultName(i), team |-> NoTeam]]]
    ELSE LET toRemove == SubSeq(st.courts, n + 1, len)
             survivors == SubSeq(st.courts, 1, n)
             displacedTeams == CourtTeams(toRemove)
         IN  [st EXCEPT !.courts = [i \in 1..n |->
                                      [id |-> i, name |-> survivors[i].name,
                                       team |-> survivors[i].team]],
                        !.teamQueue = st.teamQueue \o displacedTeams,
                        !.disabledCourtsOnce = {id \in @ : id <= n}]

\* applyCourtCount, were the disabled ids of removed courts kept.
applyCourtCountKeepsDisabled(st, n) ==
    LET len == Len(st.courts) IN
    IF n = len THEN st
    ELSE IF n > len
    THEN [st EXCEPT !.courts =
            [i \in 1..n |-> IF i <= len THEN st.courts[i]
                            ELSE [id |-> i, name |-> DefaultName(i), team |-> NoTeam]]]
    ELSE LET toRemove == SubSeq(st.courts, n + 1, len)
             survivors == SubSeq(st.courts, 1, n)
             displacedTeams == CourtTeams(toRemove)
         IN  [st EXCEPT !.courts = [i \in 1..n |->
                                      [id |-> i, name |-> survivors[i].name,
                                       team |-> survivors[i].team]],
                        !.teamQueue = displacedTeams \o st.teamQueue]

applyCourtCount(st, n) ==
    LET len == Len(st.courts) IN
    IF n = len THEN st
    ELSE IF n > len
    THEN [st EXCEPT !.courts =
            [i \in 1..n |-> IF i <= len THEN st.courts[i]
                            ELSE [id |-> i, name |-> DefaultName(i), team |-> NoTeam]]]
    ELSE LET toRemove == SubSeq(st.courts, n + 1, len)
             survivors == SubSeq(st.courts, 1, n)
             displacedTeams == CourtTeams(toRemove)
         IN  [st EXCEPT !.courts = [i \in 1..n |->
                                      [id |-> i, name |-> survivors[i].name,
                                       team |-> survivors[i].team]],
                        !.teamQueue = displacedTeams \o st.teamQueue,
                        !.disabledCourtsOnce = {id \in @ : id <= n}]

\* toggleDisableCourtOnce, were the evicted team queued last instead of first.
toggleEvictsToQueueEnd(st, courtId) ==
    LET idx == findIndex(st.courts, courtId) IN
    IF ~isCourtDisabled(st, courtId)
    THEN IF idx > 0 /\ HasTeam(st.courts[idx]) /\ Len(TeamOf(st.courts[idx])) > 0
         THEN [st EXCEPT !.courts[idx].team = NoTeam,
                         !.teamQueue = @ \o <<TeamOf(st.courts[idx])>>,
                         !.disabledCourtsOnce = @ \cup {courtId}]
         ELSE [st EXCEPT !.disabledCourtsOnce = @ \cup {courtId}]
    ELSE IF idx > 0 /\ ~HasTeam(st.courts[idx]) /\ Len(st.teamQueue) > 0
         THEN [st EXCEPT !.courts[idx].team = <<Head(st.teamQueue)>>,
                         !.teamQueue = Tail(@),
                         !.lastTeamSigByPlayer = markTeamAsStarted(@, Head(st.teamQueue)),
                         !.disabledCourtsOnce = @ \ {courtId}]
         ELSE [st EXCEPT !.disabledCourtsOnce = @ \ {courtId}]

\* toggleDisableCourtOnce, were the team it seats not marked as started.
toggleSeatsUnmarked(st, courtId) ==
    LET idx == findIndex(st.courts, courtId) IN
    IF ~isCourtDisabled(st, courtId)
    THEN IF idx > 0 /\ HasTeam(st.courts[idx]) /\ Len(TeamOf(st.courts[idx])) > 0
         THEN [st EXCEPT !.courts[idx].team = NoTeam,
                         !.teamQueue = <<TeamOf(st.courts[idx])>> \o @,
                         !.disabledCourtsOnce = @ \cup {courtId}]
         ELSE [st EXCEPT !.disabledCourtsOnce = @ \cup {courtId}]
    ELSE IF idx > 0 /\ ~HasTeam(st.courts[idx]) /\ Len(st.teamQueue) > 0
         THEN [st EXCEPT !.courts[idx].team = <<Head(st.teamQueue)>>,
                         !.teamQueue = Tail(@),
                         !.disabledCourtsOnce = @ \ {courtId}]
         ELSE [st EXCEPT !.disabledCourtsOnce = @ \ {courtId}]

\* toggleDisableCourtOnce, were the newest queued team seated on enabling.
toggleSeatsNewest(st, courtId) ==
    LET idx == findIndex(st.courts, courtId) IN
    IF ~isCourtDisabled(st, courtId)
    THEN IF idx > 0 /\ HasTeam(st.courts[idx]) /\ Len(TeamOf(st.courts[idx])) > 0
         THEN [st EXCEPT !.courts[idx].team = NoTeam,
                         !.teamQueue = <<TeamOf(st.courts[idx])>> \o @,
                         !.disabledCourtsOnce = @ \cup {courtId}]
         ELSE [st EXCEPT !.disabledCourtsOnce = @ \cup {courtId}]
    ELSE IF idx > 0 /\ ~HasTeam(st.courts[idx]) /\ Len(st.teamQueue) > 0
         THEN LET newest == st.teamQueue[Len(st.teamQueue)]
              IN  [st EXCEPT !.courts[idx].team = <<newest>>,
                             !.teamQueue = SubSeq(@, 1, Len(@) - 1),
                             !.lastTeamSigByPlayer = markTeamAsStarted(@, newest),
                             !.disabledCourtsOnce = @ \ {courtId}]
         ELSE [st EXCEPT !.disabledCourtsOnce = @ \ {courtId}]

toggleDisableCourtOnce(st, courtId) ==
    LET idx == findIndex(st.courts, courtId) IN
    IF ~isCourtDisabled(st, courtId)
    THEN IF idx > 0 /\ HasTeam(st.courts[idx]) /\ Len(TeamOf(st.courts[idx])) > 0
         THEN [st EXCEPT !.courts[idx].team = NoTeam,
                         !.teamQueue = <<TeamOf(st.courts[idx])>> \o @,
                         !.disabledCourtsOnce = @ \cup {courtId}]
         ELSE [st EXCEPT !.disabledCourtsOnce = @ \cup {courtId}]
    ELSE IF idx > 0 /\ ~HasTeam(st.courts[idx]) /\ Len(st.teamQueue) > 0
         THEN [st EXCEPT !.courts[idx].team = <<Head(st.teamQueue)>>,
                         !.teamQueue = Tail(@),
                         !.lastTeamSigByPlayer = markTeamAsStarted(@, Head(st.teamQueue)),
                         !.disabledCourtsOnce = @ \ {courtId}]
         ELSE [st EXCEPT !.disabledCourtsOnce = @ \ {courtId}]

\* for (const name of finishedTeam) next[name] = (next[name] || 0) + 1
RECURSIVE incrementCounts(_, _)
incrementCounts(counts, team) ==
    IF team = <<>> THEN counts
    ELSE incrementCounts(
            [n \in (DOMAIN counts) \cup {Head(team)} |->
                IF n = Head(team) THEN getCount(counts, n) + 1 ELSE counts[n]],
            Tail(team))

\* handleFinishCourt, were the court never refilled from the queue.
finishWithoutRefill(st, courtId) ==
    LET idx == findIndex(st.courts, courtId) IN
    IF idx = 0 THEN st
    ELSE LET finishedTeam == IF HasTeam(st.courts[idx]) THEN TeamOf(st.courts[idx]) ELSE <<>>
         IN  [st EXCEPT !.playedCount = incrementCounts(@, finishedTeam),
                        !.courts[idx].team = NoTeam,
                        !.participants = st.participants \o finishedTeam]

\* handleFinishCourt, were every court enabled again when a match is finished.
finishEnablesCourts(st, courtId) ==
    LET idx == findIndex(st.courts, courtId) IN
    IF idx = 0 THEN st
    ELSE LET finishedTeam == IF HasTeam(st.courts[idx]) THEN TeamOf(st.courts[idx]) ELSE <<>>
             counted == [st EXCEPT !.playedCount = incrementCounts(@, finishedTeam)]
             seated ==
                IF Len(st.teamQueue) > 0 /\ ~isCourtDisabled(st, courtId)
                THEN [counted EXCEPT !.courts[idx].team = <<Head(st.teamQueue)>>,
                                     !.lastTeamSigByPlayer =
                                         markTeamAsStarted(@, Head(st.teamQueue)),
                                     !.teamQueue = Tail(st.teamQueue)]
                ELSE [counted EXCEPT !.courts[idx].team = NoTeam]
         IN  [seated EXCEPT !.participants = st.participants \o finishedTeam,
                            !.disabledCourtsOnce = {}]

handleFinishCourt(st, courtId) ==
    LET idx == findIndex(st.courts, courtId) IN
    IF idx = 0 THEN st
    ELSE LET finishedTeam == IF HasTeam(st.courts[idx]) THEN TeamOf(st.courts[idx]) ELSE <<>>
             counted == [st EXCEPT !.playedCount = incrementCounts(@, finishedTeam)]
             seated ==
                IF Len(st.teamQueue) > 0 /\ ~isCourtDisabled(st, courtId)
                THEN [counted EXCEPT !.courts[idx].team = <<Head(st.teamQueue)>>,
                                     !.lastTeamSigByPlayer =
                                         markTeamAsStarted(@, Head(st.teamQueue)),
                                     !.teamQueue = Tail(st.teamQueue)]
                ELSE [counted EXCEPT !.courts[idx].team = NoTeam]
         IN  [seated EXCEPT !.participants = st.participants \o finishedTeam]

-----------------------------------------------------------------------------
(* handleMakeTeams *)

isExactRepeatTeam(st, team) == isExactRepeatTeamWithMap(team, st.lastTeamSigByPlayer)

eligibleParticipants(st) == Without(st.participants, st.restOnce)

eligiblePriorityCarry(st) == Without(st.priorityCarry, st.restOnce)

totalAvailable(st) == Len(eligibleParticipants(st)) + Len(eligiblePriorityCarry(st))

\* breakIfRepeat, were a repeat never broken.
repeatKept(st, team, tail) == [group |-> team, tail |-> tail]

\* The team a formation step emits and the pool it leaves, after the break attempt.
breakIfRepeat(st, team, tail) ==
    LET broken == IF isExactRepeatTeam(st, team)
                  THEN tryBreak(team, tail, st.lastTeamSigByPlayer) ELSE <<>>
    IN  IF broken # <<>> THEN broken[1] ELSE [group |-> team, tail |-> tail]

\* Steps 1-3 keep each team they emit with the pool left at that moment, as
\* [group, tail].
groupsOf(emitted) == [i \in 1..Len(emitted) |-> emitted[i].group]

tailsOf(emitted) == [i \in 1..Len(emitted) |-> emitted[i].tail]

\* 1) teams of four taken from the priority list alone
RECURSIVE priorityOnlyTeams(_, _, _, _)
priorityOnlyTeams(st, priorityList, pool, out) ==
    IF ~(Len(priorityList) >= TeamSize)
    THEN [priorityList |-> priorityList, pool |-> pool, teams |-> out]
    ELSE LET b == breakIfRepeat(st, SubSeq(priorityList, 1, TeamSize), pool)
         IN  priorityOnlyTeams(st, SubSeq(priorityList, TeamSize + 1, Len(priorityList)),
                               b.tail, Append(out, b))

\* priorityTopUp, were the priority remainder never topped up.
priorityNeverToppedUp(st, s1) == {s1}

\* 2) the priority remainder topped up by a weighted sample of the pool
priorityTopUp(st, s1) ==
    LET need == TeamSize - Len(s1.priorityList) IN
    IF Len(s1.priorityList) > 0 /\ Len(s1.pool) >= need
    THEN {LET b == breakIfRepeat(st, s1.priorityList \o smp.picked, smp.pool)
          IN  [priorityList |-> <<>>, pool |-> b.tail, teams |-> Append(s1.teams, b)] :
             smp \in weightedSampleWithoutReplacement(s1.pool, need, st.playedCount)}
    ELSE {s1}

\* genericTeams, were a repeat emitted as it was drawn.
RECURSIVE genericTeamsAsDrawn(_, _, _, _)
genericTeamsAsDrawn(st, pool, out, fuel) ==
    IF ~(Len(pool) >= TeamSize)
    THEN {[teams |-> out, pool |-> pool, hung |-> FALSE, retried |-> FALSE]}
    ELSE UNION {
        genericTeamsAsDrawn(st, smp.pool, Append(out, [group |-> smp.picked, tail |-> smp.pool]),
                            fuel) :
        smp \in weightedSampleWithoutReplacement(pool, TeamSize, st.playedCount)}

\* 3) generic teams; fuel bounds the reshuffle-and-retry branch and is spent by
\* nothing else: retried marks a run that took the branch, hung one that is
\* still retrying when the fuel is spent.
RECURSIVE genericTeams(_, _, _, _)
genericTeams(st, pool, out, fuel) ==
    IF ~(Len(pool) >= TeamSize)
    THEN {[teams |-> out, pool |-> pool, hung |-> FALSE, retried |-> fuel < MaxReshuffle]}
    ELSE UNION {
        LET group == smp.picked
            tail == smp.pool
            broken == tryBreak(group, tail, st.lastTeamSigByPlayer)
        IN  IF isExactRepeatTeam(st, group) /\ broken # <<>>
            THEN genericTeams(st, broken[1].tail, Append(out, broken[1]), fuel)
            ELSE IF isExactRepeatTeam(st, group) /\ Len(pool) > TeamSize
            THEN IF fuel = 0
                 THEN {[teams |-> out, pool |-> pool, hung |-> TRUE, retried |-> TRUE]}
                 ELSE UNION {genericTeams(st, p, out, fuel - 1) : p \in shuffle(pool)}
            ELSE genericTeams(st, tail, Append(out, [group |-> group, tail |-> tail]), fuel) :
        smp \in weightedSampleWithoutReplacement(pool, TeamSize, st.playedCount)}

\* Steps 1-4: every result the random draws can give.
formationOutcomes(st) ==
    LET prio == eligiblePriorityCarry(st)
        others == Without(eligibleParticipants(st), Range(prio))
        s1 == priorityOnlyTeams(st, prio, others, <<>>)
    IN  UNION {
          {[priorityTeamsOut |-> groupsOf(s2.teams),
            otherTeamsOut |-> groupsOf(g.teams),
            tailsOut |-> tailsOf(s2.teams) \o tailsOf(g.teams),
            rest |-> s2.priorityList \o g.pool,
            hung |-> g.hung,
            retried |-> g.retried] : g \in genericTeams(st, s2.pool, <<>>, MaxReshuffle)} :
          s2 \in priorityTopUp(st, s1)}

\* newTeamsInOrder, were the generic teams put before the priority teams.
genericTeamsFirst(st, o) == sortByAvg(st.playedCount, o.otherTeamsOut) \o o.priorityTeamsOut

newTeamsInOrder(st, o) == o.priorityTeamsOut \o sortByAvg(st.playedCount, o.otherTeamsOut)

\* seatLoop, were disabled courts seated like the others.
RECURSIVE seatLoopOnAnyCourt(_, _, _, _, _)
seatLoopOnAnyCourt(st, cs, teams, i, seated) ==
    IF i > Len(cs) THEN [courts |-> cs, left |-> teams, seated |-> seated]
    ELSE IF ~HasTeam(cs[i]) /\ Len(teams) > 0
    THEN seatLoopOnAnyCourt(st, [cs EXCEPT ![i].team = <<Head(teams)>>], Tail(teams), i + 1,
                            Append(seated, Head(teams)))
    ELSE seatLoopOnAnyCourt(st, cs, teams, i + 1, seated)

\* for (const c of nextCourts) if (!c.team && <teams left> && !isCourtDisabled(c.id)) ...
RECURSIVE seatLoop(_, _, _, _, _)
seatLoop(st, cs, teams, i, seated) ==
    IF i > Len(cs) THEN [courts |-> cs, left |-> teams, seated |-> seated]
    ELSE IF ~HasTeam(cs[i]) /\ Len(teams) > 0 /\ ~isCourtDisabled(st, cs[i].id)
    THEN seatLoop(st, [cs EXCEPT ![i].team = <<Head(teams)>>], Tail(teams), i + 1,
                  Append(seated, Head(teams)))
    ELSE seatLoop(st, cs, teams, i + 1, seated)

RECURSIVE markAll(_, _)
markAll(map, teams) ==
    IF teams = <<>> THEN map ELSE markAll(markTeamAsStarted(map, Head(teams)), Tail(teams))

\* Step 5 and the state updates, for one result o of steps 1-4.
seatAndCommit(st, o) ==
    LET fromQueue == seatLoop(st, st.courts, st.teamQueue, 1, <<>>)
        fromNew == seatLoop(st, fromQueue.courts, newTeamsInOrder(st, o), 1, <<>>)
    IN  [st EXCEPT !.priorityCarry = o.rest,
                   !.courts = fromNew.courts,
                   !.teamQueue = fromQueue.left \o fromNew.left,
                   !.lastTeamSigByPlayer = markAll(@, fromQueue.seated \o fromNew.seated),
                   !.participants = mergeRestOnceBack(st.participants, st.restOnce),
                   !.restOnce = {}]

\* handleMakeTeams, were the early return to leave the resting players resting.
makeTeamsKeepsRest(st) ==
    IF totalAvailable(st) < TeamSize THEN {st}
    ELSE {seatAndCommit(st, o) : o \in {x \in formationOutcomes(st) : ~x.hung}}

\* Every state handleMakeTeams can return in (a run that never returns gives none).
handleMakeTeams(st) ==
    IF totalAvailable(st) < TeamSize THEN {[st EXCEPT !.restOnce = {}]}
    ELSE {seatAndCommit(st, o) : o \in {x \in formationOutcomes(st) : ~x.hung}}

\* handleResetAll, were the disabled courts left disabled.
resetKeepsDisabled(st, confirmed) ==
    IF confirmed THEN [InitialState EXCEPT !.disabledCourtsOnce = st.disabledCourtsOnce] ELSE st

\* confirmed is what window.confirm returned.
handleResetAll(st, confirmed) == IF confirmed THEN InitialState ELSE st

handleRenameCourt(st, courtId, name) ==
    [st EXCEPT !.courts = [i \in 1..Len(@) |->
                              IF @[i].id = courtId THEN [@[i] EXCEPT !.name = name] ELSE @[i]]]

handleRemoveParticipant(st, name, index) ==
    [st EXCEPT !.participants = RemoveAt(@, index),
               !.restOnce = @ \ {name},
               !.priorityCarry = Without(@, {name})]

handleRestOnce(st, name) ==
    [st EXCEPT !.restOnce = IF name \in @ THEN @ \ {name} ELSE @ \cup {name}]

-----------------------------------------------------------------------------
(* Persistence.  The save effect writes JSON.stringify of the state to      *)
(* localStorage after every change; the load effect reads it at mount.      *)

\* JSON has no undefined: JSON.stringify writes null for an undefined element
\* and for an empty slot of an array.
Null == "null"

jsonArray(s) == [i \in 1..Len(s) |-> IF s[i] = Undefined THEN Null ELSE s[i]]

\* JSON.parse(JSON.stringify(payload)): the payload has no disabledCourtsOnce,
\* and a court without a team is written without the key team.
savedPayload(st) ==
    [participants |-> jsonArray(st.participants),
     teamQueue |-> [i \in 1..Len(st.teamQueue) |-> jsonArray(st.teamQueue[i])],
     courts |-> [i \in 1..Len(st.courts) |->
                   [id |-> st.courts[i].id, name |-> st.courts[i].name,
                    team |-> IF HasTeam(st.courts[i])
                             THEN <<jsonArray(TeamOf(st.courts[i]))>> ELSE NoTeam]],
     lastTeamSigByPlayer |-> st.lastTeamSigByPlayer,
     priorityCarry |-> jsonArray(st.priorityCarry),
     restOnce |-> st.restOnce,
     playedCount |-> st.playedCount]

\* The state after mount: what useState gives, then what the load effect sets
\* from the stored payload s.
loadState(s) ==
    [InitialState EXCEPT
        !.participants = s.participants,
        !.teamQueue = s.teamQueue,
        !.courts = [i \in 1..Len(s.courts) |->
                      [id |-> s.courts[i].id, name |-> s.courts[i].name,
                       team |-> s.courts[i].team]],
        !.lastTeamSigByPlayer = s.lastTeamSigByPlayer,
        !.priorityCarry = s.priorityCarry,
        !.restOnce = s.restOnce,
        !.playedCount = s.playedCount]

\* The names a state shows, wherever they are.
shownNames(st) ==
    Range(st.participants) \cup Range(st.priorityCarry)
        \cup Range(FlattenTeams(st.teamQueue)) \cup Range(FlattenTeams(CourtTeams(st.courts)))

-----------------------------------------------------------------------------
(* Drag and drop.  A drag source is the payload setDragData stores:        *)
(* [from, name, fromIndex, teamIndex, memberIndex, courtId], 0 for a field *)
(* the payload does not have.                                              *)

FromParticipants(st, i) ==
    [from |-> "participants", name |-> st.participants[i], fromIndex |-> i,
     teamIndex |-> 0, memberIndex |-> 0, courtId |-> 0]

FromPriority(st, i) ==
    [from |-> "priority", name |-> st.priorityCarry[i], fromIndex |-> i,
     teamIndex |-> 0, memberIndex |-> 0, courtId |-> 0]

FromQueue(st, ti, mi) ==
    [from |-> "queue", name |-> st.teamQueue[ti][mi], fromIndex |-> 0,
     teamIndex |-> ti, memberIndex |-> mi, courtId |-> 0]

FromCourt(st, ci, mi) ==
    [from |-> "court", name |-> TeamOf(st.courts[ci])[mi], fromIndex |-> 0,
     teamIndex |-> 0, memberIndex |-> mi, courtId |-> st.courts[ci].id]

\* The chips that can be dragged in state st.
DragSources(st) ==
    {FromParticipants(st, i) : i \in 1..Len(st.participants)}
    \cup {FromPriority(st, i) : i \in 1..Len(st.priorityCarry)}
    \cup UNION {{FromQueue(st, ti, mi) : mi \in 1..Len(st.teamQueue[ti])} :
                  ti \in 1..Len(st.teamQueue)}
    \cup UNION {{FromCourt(st, ci, mi) : mi \in 1..Len(TeamOf(st.courts[ci]))} :
                  ci \in {i \in 1..Len(st.courts) : HasTeam(st.courts[i])}}

\* target: [type, teamIndex, courtId]
canDrop(source, target) ==
    /\ ~(source.from = "participants" /\ target.type = "participants")
    /\ ~(source.from = "queue" /\ target.type = "queue"
            /\ source.teamIndex = target.teamIndex)
    /\ ~(source.from = "court" /\ target.type = "court" /\ source.courtId = target.courtId)
    /\ ~(source.from = "priority" /\ target.type = "priority")

Target(type, teamIndex, courtId) == [type |-> type, teamIndex |-> teamIndex, courtId |-> courtId]

\* team[i] = x on an array: writing past the end leaves the slots between undefined.
SetAt(team, i, x) ==
    [j \in 1..(IF i > Len(team) THEN i ELSE Len(team)) |->
        IF j = i THEN x ELSE IF j <= Len(team) THEN team[j] ELSE Undefined]

\* team.splice(i, 0, x): an index past the end inserts at the end.
SpliceIn(team, i, x) == InsertAt(team, IF i > Len(team) + 1 THEN Len(team) + 1 ELSE i, x)

removeFromSource(st, src) ==
    IF src.from = "participants"
    THEN [st EXCEPT !.participants = RemoveAt(@, src.fromIndex)]
    ELSE IF src.from = "queue"
    THEN LET shorter == RemoveAt(st.teamQueue[src.teamIndex], src.memberIndex)
         IN  [st EXCEPT !.teamQueue = IF Len(shorter) = 0 THEN RemoveAt(@, src.teamIndex)
                                      ELSE [@ EXCEPT ![src.teamIndex] = shorter]]
    ELSE IF src.from = "court"
    THEN LET idx == findIndex(st.courts, src.courtId) IN
         IF idx > 0 /\ HasTeam(st.courts[idx])
         THEN LET shorter == RemoveAt(TeamOf(st.courts[idx]), src.memberIndex)
              IN  [st EXCEPT !.courts[idx].team =
                                 IF Len(shorter) = 0 THEN NoTeam ELSE <<shorter>>]
         ELSE st
    ELSE IF src.from = "priority"
    THEN [st EXCEPT !.priorityCarry = RemoveAt(@, src.fromIndex)]
    ELSE st

\* atIndex = 0 stands for a call without atIndex; a given index i (1-based) is
\* clamped to the filtered list.
addToParticipants(st, name, atIndex) ==
    LET filtered == Without(st.participants, {name})
        at == IF atIndex > Len(filtered) + 1 THEN Len(filtered) + 1 ELSE atIndex
    IN  [st EXCEPT !.participants = IF atIndex = 0 THEN Append(filtered, name)
                                    ELSE InsertAt(filtered, at, name),
                   !.priorityCarry = Without(@, {name}),
                   !.playedCount = ensureCountsFor(@, {name})]

\* memberIndex = 0 stands for a call without memberIndex.
addToQueue(st, name, teamIndex, memberIndex) ==
    LET prev == st.teamQueue
        next == IF teamIndex > Len(prev) THEN Append(prev, <<>>) ELSE prev
        queue == IF memberIndex > 0
                 THEN [next EXCEPT ![teamIndex] = SetAt(@, memberIndex, name)]
                 ELSE IF Len(next[teamIndex]) >= TeamSize THEN prev
                 ELSE [next EXCEPT ![teamIndex] = Append(@, name)]
    IN  [st EXCEPT !.teamQueue = queue,
                   !.playedCount = ensureCountsFor(@, {name})]

addToCourt(st, name, courtId, memberIndex) ==
    IF isCourtDisabled(st, courtId) THEN st
    ELSE LET idx == findIndex(st.courts, courtId)
             team == IF idx > 0 /\ HasTeam(st.courts[idx]) THEN TeamOf(st.courts[idx]) ELSE <<>>
             cs == IF idx = 0 THEN st.courts
                   ELSE IF memberIndex > 0 /\ memberIndex <= Len(team)
                           /\ team[memberIndex] # Undefined
                   THEN [st.courts EXCEPT ![idx].team = <<ReplaceAt(team, memberIndex, name)>>]
                   ELSE IF Len(team) >= TeamSize THEN st.courts
                   ELSE [st.courts EXCEPT ![idx].team = <<Append(team, name)>>]
         IN  [st EXCEPT !.courts = cs,
                        !.playedCount = ensureCountsFor(@, {name})]

returnReplacedToSource(st, replaced, source) ==
    IF source.from = "participants"
    THEN addToParticipants(st, replaced, source.fromIndex)
    ELSE IF source.from = "queue"
    THEN LET next == IF source.teamIndex > Len(st.teamQueue)
                     THEN Append(st.teamQueue, <<>>) ELSE st.teamQueue
         IN  [st EXCEPT !.teamQueue =
                            [next EXCEPT ![source.teamIndex] =
                                SpliceIn(@, source.memberIndex, replaced)],
                        !.playedCount = ensureCountsFor(@, {replaced})]
    ELSE IF source.from = "court"
    THEN LET idx == findIndex(st.courts, source.courtId)
             \* prev.map((c) => ({ ...c, team: c.team ? [...c.team] : [] }))
             mapped == [i \in 1..Len(st.courts) |->
                          [st.courts[i] EXCEPT !.team = IF HasTeam(st.courts[i]) THEN @
                                                        ELSE <<<<>>>>]]
         IN  [st EXCEPT !.courts =
                            IF idx = 0 THEN mapped
                            ELSE [mapped EXCEPT ![idx].team =
                                    <<SpliceIn(@[1], source.memberIndex, replaced)>>],
                        !.playedCount = ensureCountsFor(@, {replaced})]
    ELSE IF source.from = "priority"
    THEN [st EXCEPT !.priorityCarry = SpliceIn(@, source.fromIndex, replaced)]
    ELSE st

handleDropToParticipants(st, data) ==
    IF ~canDrop(data, Target("participants", 0, 0)) THEN st
    ELSE addToParticipants(removeFromSource(st, data), data.name, 0)

handleDropToQueueContainer(st, data, teamIndex) ==
    IF ~canDrop(data, Target("queue", teamIndex, 0)) THEN st
    ELSE IF Len(st.teamQueue[teamIndex]) >= TeamSize THEN st
    ELSE addToQueue(removeFromSource(st, data), data.name, teamIndex, 0)

handleDropToQueueChip(st, data, teamIndex, memberIndex) ==
    IF ~canDrop(data, Target("queue", teamIndex, 0)) THEN st
    ELSE LET replaced == st.teamQueue[teamIndex][memberIndex]
             added == addToQueue(removeFromSource(st, data), data.name, teamIndex, memberIndex)
         IN  IF replaced # Undefined THEN returnReplacedToSource(added, replaced, data)
             ELSE added

\* handleDropToCourtContainer, were a full court not checked before the removal.
dropToCourtContainerUnchecked(st, data, courtId) ==
    IF ~canDrop(data, Target("court", 0, courtId)) \/ isCourtDisabled(st, courtId) THEN st
    ELSE addToCourt(removeFromSource(st, data), data.name, courtId, 0)

handleDropToCourtContainer(st, data, courtId) ==
    IF ~canDrop(data, Target("court", 0, courtId)) \/ isCourtDisabled(st, courtId) THEN st
    ELSE LET idx == findIndex(st.courts, courtId)
             currentLen == IF idx > 0 /\ HasTeam(st.courts[idx])
                           THEN Len(TeamOf(st.courts[idx])) ELSE 0
         IN  IF currentLen >= TeamSize THEN st
             ELSE addToCourt(removeFromSource(st, data), data.name, courtId, 0)

handleDropToCourtChip(st, data, courtId, memberIndex) ==
    IF ~canDrop(data, Target("court", 0, courtId)) \/ isCourtDisabled(st, courtId) THEN st
    ELSE LET idx == findIndex(st.courts, courtId)
             replaced == TeamOf(st.courts[idx])[memberIndex]
             added == addToCourt(removeFromSource(st, data), data.name, courtId, memberIndex)
         IN  IF replaced # Undefined THEN returnReplacedToSource(added, replaced, data)
             ELSE added

handleDropToPriorityContainer(st, data) ==
    IF ~canDrop(data, Target("priority", 0, 0)) THEN st
    ELSE [removeFromSource(st, data) EXCEPT
            !.priorityCarry = <<data.name>> \o Without(@, {data.name})]

handleDropToPriorityChip(st, data, memberIndex) ==
    IF ~canDrop(data, Target("priority", 0, 0)) THEN st
    ELSE LET replaced == st.priorityCarry[memberIndex]
             removed == removeFromSource(st, data)
             kept == [removed EXCEPT
                        !.priorityCarry =
                            <<data.name>> \o
                            Without(RemoveAt(@, memberIndex), {data.name})]
         IN  IF replaced # Undefined THEN returnReplacedToSource(kept, replaced, data)
             ELSE kept

-----------------------------------------------------------------------------
(* The state machine *)

\* The texts typed into the name box, as the lists parseNames gives.
NameLists ==
    {<<"a", "b", "c", "d", "e">>, <<"a", "b", "c", "d">>, <<"e", "a">>, <<"A", "e", "a">>}

\* The numbers typed into the court-count box.
CourtCountInputs == {-1, 0, 1, 2, 3, 40}

NoOutcome ==
    [priorityTeamsOut |-> <<>>, otherTeamsOut |-> <<>>, tailsOut |-> <<>>, rest |-> <<>>,
     hung |-> FALSE, retried |-> FALSE]

NoSource ==
    [from |-> "", name |-> "", fromIndex |-> 0, teamIndex |-> 0, memberIndex |-> 0, courtId |-> 0]

NoDrop == [type |-> "", teamIndex |-> 0, courtId |-> 0, memberIndex |-> 0]

\* What last records of a command: its name, its arguments, the state it ran in
\* and, for handleMakeTeams, the result of formation steps 1-4; of a call of a
\* helper function, its arguments and its result.
Command(op) ==
    [op |-> op, tag |-> "", court |-> 0, list |-> <<>>, source |-> NoSource,
     drop |-> NoDrop, out |-> NoOutcome, args |-> <<>>, result |-> <<>>, pre |-> State]

WithinBounds(st) ==
    /\ Len(st.participants) <= MaxWaiting
    /\ Len(st.teamQueue) <= MaxQueue
    /\ \A n \in DOMAIN st.playedCount : st.playedCount[n] <= MaxPlayed

SetState(st) ==
    /\ participants' = st.participants
    /\ teamQueue' = st.teamQueue
    /\ courts' = st.courts
    /\ lastTeamSigByPlayer' = st.lastTeamSigByPlayer
    /\ priorityCarry' = st.priorityCarry
    /\ restOnce' = st.restOnce
    /\ playedCount' = st.playedCount
    /\ disabledCourtsOnce' = st.disabledCourtsOnce

Commit(st, cmd) ==
    /\ budget > 0
    /\ WithinBounds(st)
    /\ SetState(st)
    /\ last' = cmd
    /\ budget' = budget - 1

CourtIds == {courts[i].id : i \in 1..Len(courts)}

ConfirmNames ==
    /\ budget > 0
    /\ \E list \in NameLists :
           Commit(handleConfirmNames(State, list), [Command("confirmNames") EXCEPT !.list = list])

AddNames ==
    /\ budget > 0
    /\ \E list \in NameLists :
           Commit(addNamesNewOnly(State, list), [Command("addNames") EXCEPT !.list = list])

ApplyCourtCount ==
    /\ budget > 0
    /\ \E k \in CourtCountInputs :
           Commit(applyCourtCount(State, clampCourtCount(k)),
                  [Command("courtCount") EXCEPT !.court = k])

ToggleDisableCourt ==
    /\ budget > 0
    /\ \E id \in CourtIds :
           Commit(toggleDisableCourtOnce(State, id), [Command("toggle") EXCEPT !.court = id])

\* The make-teams button is disabled while this holds.
makeTeamsDisabled(st) ==
    Len(st.participants) + Len(st.priorityCarry) - Cardinality(st.restOnce) < 4

MakeTeams ==
    /\ budget > 0
    /\ ~makeTeamsDisabled(State)
    /\ IF totalAvailable(State) < TeamSize
       THEN \E st \in handleMakeTeams(State) :
               Commit(st, [Command("makeTeams") EXCEPT !.tag = "noop"])
       ELSE \E o \in formationOutcomes(State) :
               IF o.hung
               THEN /\ budget' = 0
                    /\ last' = [Command("makeTeams") EXCEPT !.tag = "hung", !.out = o]
                    /\ UNCHANGED <<participants, teamQueue, courts, lastTeamSigByPlayer,
                                   priorityCarry, restOnce, playedCount, disabledCourtsOnce>>
               ELSE Commit(seatAndCommit(State, o),
                           [Command("makeTeams") EXCEPT !.tag = "ok", !.out = o])

\* The finish button of a court is enabled while the court has a team.
FinishCourt ==
    /\ budget > 0
    /\ \E id \in CourtIds :
           /\ HasTeam(courts[findIndex(courts, id)])
           /\ Commit(handleFinishCourt(State, id), [Command("finish") EXCEPT !.court = id])

ResetAll ==
    /\ budget > 0
    /\ \E confirmed \in BOOLEAN :
           Commit(handleResetAll(State, confirmed),
                  [Command("reset") EXCEPT !.tag = IF confirmed THEN "ok" ELSE "declined"])

\* The texts typed into the name field of a court.
CourtNameInputs == {"centre court"}

RenameCourt ==
    /\ budget > 0
    /\ \E id \in CourtIds, name \in CourtNameInputs :
           Commit(handleRenameCourt(State, id, name), [Command("rename") EXCEPT !.court = id])

\* The page is loaded again: the state is what the load effect makes of the
\* payload the save effect stored.  teamSignature throws on a null name, so the
\* exploration is not continued from a state that holds one.
Reload ==
    /\ budget > 0
    /\ LET st == loadState(savedPayload(State)) IN
          /\ WithinBounds(st)
          /\ SetState(st)
          /\ last' = Command("reload")
          /\ budget' = IF Null \in shownNames(st) THEN 0 ELSE budget - 1

\* The rest and remove buttons belong to the entries of the waiting pool.
RestOnce ==
    /\ budget > 0
    /\ \E i \in 1..Len(participants) :
           Commit(handleRestOnce(State, participants[i]),
                  [Command("rest") EXCEPT !.list = <<participants[i]>>])

RemoveParticipant ==
    /\ budget > 0
    /\ \E i \in 1..Len(participants) :
           Commit(handleRemoveParticipant(State, participants[i], i),
                  [Command("remove") EXCEPT !.list = <<participants[i]>>])

DragNames == {d \in DragSources(State) : d.name # Undefined}

Dropped(op, data, type, teamIndex, courtId, memberIndex) ==
    [Command(op) EXCEPT !.source = data,
                        !.drop = [type |-> type, teamIndex |-> teamIndex,
                                  courtId |-> courtId, memberIndex |-> memberIndex]]

DropToParticipants ==
    /\ budget > 0
    /\ \E data \in DragNames :
          Commit(handleDropToParticipants(State, data),
                 Dropped("dropToParticipants", data, "participants", 0, 0, 0))

DropToQueueContainer ==
    /\ budget > 0
    /\ \E data \in DragNames, ti \in 1..Len(teamQueue) :
          Commit(handleDropToQueueContainer(State, data, ti),
                 Dropped("dropToQueueContainer", data, "queue", ti, 0, 0))

DropToQueueChip ==
    /\ budget > 0
    /\ \E data \in DragNames, ti \in 1..Len(teamQueue) :
          \E mi \in 1..Len(teamQueue[ti]) :
             Commit(handleDropToQueueChip(State, data, ti, mi),
                    Dropped("dropToQueueChip", data, "queue", ti, 0, mi))

DropToCourtContainer ==
    /\ budget > 0
    /\ \E data \in DragNames, id \in CourtIds :
          Commit(handleDropToCourtContainer(State, data, id),
                 Dropped("dropToCourtContainer", data, "court", 0, id, 0))

DropToCourtChip ==
    /\ budget > 0
    /\ \E data \in DragNames, ci \in {i \in 1..Len(courts) : HasTeam(courts[i])} :
          \E mi \in 1..Len(TeamOf(courts[ci])) :
             Commit(handleDropToCourtChip(State, data, courts[ci].id, mi),
                    Dropped("dropToCourtChip", data, "court", 0, courts[ci].id, mi))

DropToPriorityContainer ==
    /\ budget > 0
    /\ \E data \in DragNames :
          Commit(handleDropToPriorityContainer(State, data),
                 Dropped("dropToPriorityContainer", data, "priority", 0, 0, 0))

DropToPriorityChip ==
    /\ budget > 0
    /\ \E data \in DragNames, mi \in 1..Len(priorityCarry) :
          Commit(handleDropToPriorityChip(State, data, mi),
                 Dropped("dropToPriorityChip", data, "priority", 0, 0, mi))

Lifecycle ==
    \/ ConfirmNames
    \/ AddNames
    \/ ApplyCourtCount
    \/ ToggleDisableCourt
    \/ MakeTeams
    \/ FinishCourt
    \/ ResetAll
    \/ RenameCourt
    \/ Reload
    \/ RestOnce
    \/ RemoveParticipant

Moves ==
    \/ DropToParticipants
    \/ DropToQueueContainer
    \/ DropToQueueChip
    \/ DropToCourtContainer
    \/ DropToCourtChip
    \/ DropToPriorityContainer
    \/ DropToPriorityChip

-----------------------------------------------------------------------------
(* Calls of the helper functions on arguments of their own *)

\* A call changes nothing of the state.
Called(cmd) ==
    /\ budget > 0
    /\ last' = cmd
    /\ budget' = budget - 1
    /\ UNCHANGED <<participants, teamQueue, courts, lastTeamSigByPlayer, priorityCarry,
                   restOnce, playedCount, disabledCourtsOnce>>

\* The sequences of n different names of S.
DistinctSeqs(S, n) == {s \in [1..n -> S] : \A i, j \in 1..n : i # j => s[i] # s[j]}

\* A name may hold any character but a line break.
SignatureNames == {"a", "a|b", "b", "b|c", "c"}

SignatureInputs ==
    UNION {DistinctSeqs(SignatureNames, n) : n \in (MaxGroup - 1)..MaxGroup}

CallTeamSignature ==
    /\ budget > 0
    /\ \E t1, t2 \in SignatureInputs :
          Called([Command("teamSignature") EXCEPT
                             !.args = <<t1, t2>>,
                             !.result = <<teamSignature(t1), teamSignature(t2)>>])

RepeatInputs ==
    {<<>>, <<"a", "b", "c">>, <<"a", "b", "c", "d">>, <<"d", "c", "b", "a">>,
     <<"a", "b", "c", "e">>, <<"a", "e", "f", "g">>, <<"a", "b", "c", "d", "e">>}

\* The tracker after the teams of s started, in the order of s.
MapAfter(s) == markAll(EmptyMap, s)

MapInputs ==
    {MapAfter(<<>>),
     MapAfter(<<<<"a", "b", "c">>>>),
     MapAfter(<<<<"a", "b", "c", "d">>>>),
     MapAfter(<<<<"a", "b", "c", "d">>, <<"a", "e", "f", "g">>>>),
     MapAfter(<<<<"a", "b", "c", "d", "e">>>>)}

CallIsExactRepeatTeamWithMap ==
    /\ budget > 0
    /\ \E team \in RepeatInputs, map \in MapInputs :
          Called([Command("isExactRepeatTeamWithMap") EXCEPT
                             !.args = <<team, map>>,
                             !.result = isExactRepeatTeamWithMap(team, map)])

SampleInputs ==
    {<<>>, <<"e">>, <<"a", "e", "b">>, <<"e", "a", "e">>, <<"a", "b", "c", "d", "e">>}

CallWeightedSample ==
    /\ budget > 0
    /\ \E list \in SampleInputs, k \in 0..MaxDraw :
          \E smp \in weightedSampleWithoutReplacement(list, k, playedCount) :
              Called([Command("weightedSampleWithoutReplacement") EXCEPT
                                 !.args = <<list, k>>,
                                 !.result = smp])

TeamInputs ==
    {<<"a", "b", "c", "d">>, <<"e", "f", "g", "h">>, <<"a", "b", "e", "f">>,
     <<"c", "d", "g", "h">>, <<"a", "e", "f", "g">>}

TeamLists(n) == UNION {[1..m -> TeamInputs] : m \in 0..n}

\* The part of a result of steps 1-4 that step 5 orders.
OutcomeInputs ==
    {[NoOutcome EXCEPT !.priorityTeamsOut = p, !.otherTeamsOut = g] :
        p \in TeamLists(1), g \in TeamLists(MaxNewTeams)}

CallNewTeamsInOrder ==
    /\ budget > 0
    /\ \E o \in OutcomeInputs :
          Called([Command("newTeamsInOrder") EXCEPT
                             !.out = o,
                             !.result = newTeamsInOrder(State, o)])

Calls ==
    \/ CallTeamSignature
    \/ CallIsExactRepeatTeamWithMap
    \/ CallWeightedSample
    \/ CallNewTeamsInOrder

\* A specification starts in a state the commands reach from the state after
\* construction, with the number of commands it may still explore.
Start(st, n) ==
    /\ participants = st.participants
    /\ teamQueue = st.teamQueue
    /\ courts = st.courts
    /\ lastTeamSigByPlayer = st.lastTeamSigByPlayer
    /\ priorityCarry = st.priorityCarry
    /\ restOnce = st.restOnce
    /\ playedCount = st.playedCount
    /\ disabledCourtsOnce = st.disabledCourtsOnce
    /\ last = [op |-> "init", tag |-> "", court |-> 0, list |-> <<>>, source |-> NoSource,
               drop |-> NoDrop, out |-> NoOutcome, args |-> <<>>, result |-> <<>>, pre |-> st]
    /\ budget = n

\* The draw of handleMakeTeams that seats team on the court at index ci.
MakeTeamsSeating(st, ci, team) ==
    CHOOSE r \in handleMakeTeams(st) : r.courts[ci].team = <<team>>

\* confirm a b c d; make teams (court 1: a b c d)
OneCourtBusy ==
    MakeTeamsSeating(handleConfirmNames(InitialState, <<"a", "b", "c", "d">>), 1,
                     <<"a", "b", "c", "d">>)

\* ... add e f g h i; make teams (court 2: e f g h, carry-over: i)
TwoCourtsBusy ==
    MakeTeamsSeating(addNamesNewOnly(OneCourtBusy, <<"e", "f", "g", "h", "i">>), 2,
                     <<"e", "f", "g", "h">>)

\* ... finish court 1; disable court 2 (e f g h queued); add j k l; three courts:
\* a queued team, a carry-over and seven waiting players meet two free courts.
QueueMeetsNewTeams ==
    applyCourtCount(
        addNamesNewOnly(toggleDisableCourtOnce(handleFinishCourt(TwoCourtsBusy, 1), 2),
                        <<"j", "k", "l">>),
        3)

\* confirm a b c d e; make teams (court 1: a b c d, carry-over: e)
OneCourtAndCarry ==
    MakeTeamsSeating(handleConfirmNames(InitialState, <<"a", "b", "c", "d", "e">>), 1,
                     <<"a", "b", "c", "d">>)

\* ... drag e from the carry-over onto court 2; disable court 1, then court 2:
\* the queue is <<e>>, <<a, b, c, d>>.
SingleBeforeFull ==
    toggleDisableCourtOnce(
        toggleDisableCourtOnce(
            handleDropToCourtContainer(OneCourtAndCarry, FromPriority(OneCourtAndCarry, 1), 2),
            1),
        2)

\* ... add f g h i: a b c d play on court 1, court 2 is free, e is carried
\* over and f g h i wait.
OneCourtFiveEligible == addNamesNewOnly(OneCourtAndCarry, <<"f", "g", "h", "i">>)

\* ... finish court 1; rest a: a rests while a b c d wait and e is carried over.
RestedWaiting == handleRestOnce(handleFinishCourt(OneCourtAndCarry, 1), "a")

\* confirm a b c d; make teams; confirm e a while a b c d play; finish court 1:
\* the waiting players are e a a b c d.
DuplicateWaiting == handleFinishCourt(handleConfirmNames(OneCourtBusy, <<"e", "a">>), 1)

\* OneCourtBusy; confirm e a while a b c d play; add f g; no courts (a b c d
\* queued); two courts: a b c d is queued, e a f g wait, both courts are free.
QueueAndRepeat ==
    applyCourtCount(
        applyCourtCount(
            addNamesNewOnly(handleConfirmNames(OneCourtBusy, <<"e", "a">>), <<"f", "g">>),
            0),
        2)

\* ... make teams (court 1: a a b c).
DoubleBooked == MakeTeamsSeating(DuplicateWaiting, 1, <<"a", "a", "b", "c">>)

\* confirm a b c d e f g; rest b and e: five players are eligible, two rest.
TwoResting ==
    handleRestOnce(
        handleRestOnce(handleConfirmNames(InitialState, <<"a", "b", "c", "d", "e", "f", "g">>),
                       "b"),
        "e")

\* DuplicateWaiting; remove e; rest a: of a a b c d both entries of a rest.
RestedTwice == handleRestOnce(handleRemoveParticipant(DuplicateWaiting, "e", 1), "a")

\* QueueMeetsNewTeams; make teams (court 1: e f g h from the queue, court 3: a
\* new team, court 2 disabled, one new team queued).
QueueAndTwoPlaying == MakeTeamsSeating(QueueMeetsNewTeams, 1, <<"e", "f", "g", "h">>)

\* ... enable court 2 (it takes the queued team); disable court 1 (e f g h
\* queued): courts 2 and 3 play, court 1 is disabled, one team is queued.
OneQueuedTwoPlaying ==
    toggleDisableCourtOnce(toggleDisableCourtOnce(QueueAndTwoPlaying, 2), 1)

\* OneCourtBusy; finish court 1; add e f g h; rest b, c and d; make teams
\* (court 1: e f g h, carry-over: a); add i: a is carried over and b c d, who
\* last played with a, wait with i.
RepeatAhead ==
    addNamesNewOnly(
        MakeTeamsSeating(
            handleRestOnce(handleRestOnce(handleRestOnce(
                addNamesNewOnly(handleFinishCourt(OneCourtBusy, 1), <<"e", "f", "g", "h">>),
                "b"), "c"), "d"),
            1, <<"e", "f", "g", "h">>),
        <<"i">>)

\* QueueMeetsNewTeams; remove l: a carry-over and six waiting players.
SevenEligible == handleRemoveParticipant(QueueMeetsNewTeams, "l", 7)

\* OneCourtBusy; finish court 1: a b c d wait and last played together.
SameFourWaiting == handleFinishCourt(OneCourtBusy, 1)

\* SameFourWaiting; add e f g h: a b c d, who played once, and e f g h, who have
\* not played, wait.
EightWaiting == addNamesNewOnly(SameFourWaiting, <<"e", "f", "g", "h">>)

\* DuplicateWaiting; make teams (court 1: a b c e, carry-over: a d); finish
\* court 1; remove b and c: a and e wait while a and d are carried over.
CarriedAndWaiting ==
    handleRemoveParticipant(
        handleRemoveParticipant(
            handleFinishCourt(MakeTeamsSeating(DuplicateWaiting, 1, <<"a", "b", "c", "e">>), 1),
            "b", 2),
        "c", 2)

\* st after a is registered alone while court 1 plays and court 1 is finished:
\* a waits once more than it played on court 1.
OneMoreCopy(st) == handleFinishCourt(handleConfirmNames(st, <<"a">>), 1)

\* OneCourtBusy; then three times: register a alone, finish court 1, make teams
\* (court 1: a a b c, then a a a b, then a a a a); register a alone and finish
\* court 1 once more: a waits five times and last played as a a a a.
FiveOfAKind ==
    OneMoreCopy(
        MakeTeamsSeating(
            OneMoreCopy(
                MakeTeamsSeating(
                    OneMoreCopy(
                        MakeTeamsSeating(OneMoreCopy(OneCourtBusy), 1, <<"a", "a", "b", "c">>)),
                    1, <<"a", "a", "a", "b">>)),
            1, <<"a", "a", "a", "a">>))

Init ==
    \/ \E st \in {InitialState, TwoCourtsBusy} : Start(st, MaxSteps)
    \/ \E st \in {QueueMeetsNewTeams, QueueAndTwoPlaying, OneQueuedTwoPlaying, DoubleBooked,
                   RestedTwice, RepeatAhead, SevenEligible, FiveOfAKind, SameFourWaiting,
                   CarriedAndWaiting, QueueAndRepeat, TwoResting} :
          Start(st, 1)

Next == Lifecycle

Spec == Init /\ [][Next]_vars

InitMoves ==
    \E st \in {OneCourtAndCarry, SingleBeforeFull, RestedWaiting, OneCourtFiveEligible} :
        Start(st, MaxMoveSteps)

NextMoves == Lifecycle \/ Moves

SpecMoves == InitMoves /\ [][NextMoves]_vars

\* One call of a helper function, with the played counts of the state after
\* construction or of a state where four of eight players have played.
InitFunctions == \E st \in {InitialState, EightWaiting} : Start(st, 1)

NextFunctions == Calls

SpecFunctions == InitFunctions /\ [][NextFunctions]_vars

-----------------------------------------------------------------------------
(* Properties.  last.pre is the state the last command ran in, last.out the *)
(* result of its draws; the variables are the state it left.                *)

Pre == last.pre

Ran == last.op = "makeTeams" /\ last.tag = "ok"

Produced == last.out.priorityTeamsOut \o last.out.otherTeamsOut

Members(team) == {n \in Range(team) : n # Undefined}

HoldsGroup(c) == HasTeam(c) /\ Len(TeamOf(c)) > 0

\* The indices of the courts of st with no group that are not disabled, ascending.
FreeCourts(st) ==
    SelectSeq([i \in 1..Len(st.courts) |-> i],
              LAMBDA i : ~HasTeam(st.courts[i]) /\ st.courts[i].id \notin st.disabledCourtsOnce)

Orderings(s) == {[i \in 1..Len(s) |-> s[p[i]]] : p \in Permutations(1..Len(s))}

SeatedInOrder(pre, post, all) ==
    LET free == FreeCourts(pre)
        k == IF Len(free) < Len(all) THEN Len(free) ELSE Len(all)
    IN  /\ Len(post.courts) = Len(pre.courts)
        /\ \A j \in 1..k : post.courts[free[j]].team = <<all[j]>>
        /\ \A i \in 1..Len(pre.courts) :
              (\A j \in 1..k : free[j] # i) => post.courts[i] = pre.courts[i]
        /\ post.teamQueue = SubSeq(all, k + 1, Len(all))

\* C1: after a successful run of handleMakeTeams the groups that were already
\* queued, oldest first, and after them the new groups, those formed from the
\* carry-over first and the generic ones after, have been seated in that order
\* on the courts that were free and enabled, in ascending court order; no other
\* court changed, and the queue is what was not seated, in the same order.
C1_QueuedGroupsSeatedFirst ==
    Ran => \E generic \in Orderings(last.out.otherTeamsOut) :
              SeatedInOrder(Pre, State,
                            Pre.teamQueue \o last.out.priorityTeamsOut \o generic)

\* A run that met a queued group, a carry-over and two free courts around a
\* disabled one: the queued group and the carry-over group were seated, a
\* generic group queued.
C1_Witness ==
    /\ Ran
    /\ Len(Pre.teamQueue) = 1
    /\ Len(FreeCourts(Pre)) = 2
    /\ Pre.disabledCourtsOnce # {}
    /\ Len(last.out.priorityTeamsOut) = 1
    /\ Len(last.out.otherTeamsOut) = 1
    /\ courts[1].team = <<Pre.teamQueue[1]>>
    /\ courts[3].team = <<last.out.priorityTeamsOut[1]>>
    /\ teamQueue = last.out.otherTeamsOut

\* C2: handleFinishCourt adds exactly 1 to the played count of each member of the
\* court's group, leaves every other count as it was, and appends the members to
\* the waiting players in court order.
C2_FinishCountsEachMemberOnce ==
    last.op = "finish" =>
        LET team == TeamOf(Pre.courts[findIndex(Pre.courts, last.court)])
        IN  /\ participants = Pre.participants \o team
            /\ \A n \in DOMAIN playedCount :
                  playedCount[n] = getCount(Pre.playedCount, n)
                                      + (IF n \in Range(team) THEN 1 ELSE 0)
            /\ DOMAIN Pre.playedCount \subseteq DOMAIN playedCount

\* C3: after handleFinishCourt the court, if it is enabled and a group was
\* queued, holds the group that was first in the queue and the queue lost that
\* group; otherwise the court has no group and the queue is as it was.  No other
\* court changed.
C3_FinishRefillsFromQueue ==
    last.op = "finish" =>
        LET idx == findIndex(Pre.courts, last.court)
        IN  /\ Len(courts) = Len(Pre.courts)
            /\ \A i \in 1..Len(courts) : i # idx => courts[i] = Pre.courts[i]
            /\ IF last.court \notin Pre.disabledCourtsOnce /\ Pre.teamQueue # <<>>
               THEN /\ courts[idx].team = <<Head(Pre.teamQueue)>>
                    /\ teamQueue = Tail(Pre.teamQueue)
               ELSE /\ ~HasTeam(courts[idx])
                    /\ teamQueue = Pre.teamQueue

\* A court was finished while a group was queued and another court played: it
\* took the queued group.
C3_Witness ==
    /\ last.op = "finish"
    /\ Len(Pre.teamQueue) = 1
    /\ teamQueue = <<>>
    /\ courts[findIndex(courts, last.court)].team = <<Pre.teamQueue[1]>>
    /\ \E i \in 1..Len(courts) : courts[i].id # last.court /\ HoldsGroup(courts[i])

\* C4: a player who was resting when handleMakeTeams ran, wherever the player
\* was, is in none of the groups the run produced and is a waiting player after
\* it, and nobody is resting after it.
C4_RestedPlayersWaitAfterRun ==
    (last.op = "makeTeams" /\ last.tag # "hung") =>
        /\ restOnce = {}
        /\ \A p \in Pre.restOnce :
              /\ p \in Range(participants)
              /\ \A i \in 1..Len(Produced) : p \notin Range(Produced[i])

\* The entries of the waiting list and the carry-over that are not resting.
EligibleEntries(st) ==
    Cardinality({i \in 1..Len(st.participants) : st.participants[i] \notin st.restOnce})
    + Cardinality({i \in 1..Len(st.priorityCarry) : st.priorityCarry[i] \notin st.restOnce})

\* C5: handleMakeTeams with fewer than 4 eligible players changes nothing but the
\* resting set, which it empties.
C5_TooFewOnlyClearsRest ==
    (last.op = "makeTeams" /\ EligibleEntries(Pre) < 4) =>
        State = [Pre EXCEPT !.restOnce = {}]

\* A run with three eligible players among five waiting entries, one name resting.
C5_Witness ==
    /\ last.op = "makeTeams"
    /\ EligibleEntries(Pre) = 3
    /\ Len(Pre.participants) = 5
    /\ Pre.restOnce # {}
    /\ restOnce = {}

\* C6: every group handleMakeTeams produces has exactly 4 members with pairwise
\* distinct names.
C6_ProducedGroupsAreFourDistinct ==
    Ran => \A i \in 1..Len(Produced) :
              /\ Len(Produced[i]) = 4
              /\ Cardinality(Range(Produced[i])) = 4

\* C7: no group on a court or in the queue has more than 4 members.
C7_GroupsHaveAtMostFour ==
    /\ \A i \in 1..Len(teamQueue) : Len(teamQueue[i]) <= 4
    /\ \A i \in 1..Len(courts) : HasTeam(courts[i]) => Len(TeamOf(courts[i])) <= 4

\* C8: no disabled court holds a player.
C8_DisabledCourtsAreEmpty ==
    \A i \in 1..Len(courts) :
        courts[i].id \in disabledCourtsOnce => ~HoldsGroup(courts[i])

\* A player was dropped on a disabled court while a group was queued.
C8_Witness ==
    /\ last.op \in {"dropToCourtContainer", "dropToCourtChip"}
    /\ last.drop.courtId \in Pre.disabledCourtsOnce
    /\ last.drop.courtId \in disabledCourtsOnce
    /\ teamQueue # <<>>

\* C9: disabling an enabled court puts the group it holds, if any, in front of
\* the queued groups, which keep their order, and leaves the court without a
\* group; a court that holds no group only becomes disabled.  The played counts,
\* the waiting players and the other courts stay as they were.
C9_DisableQueuesGroupFirst ==
    (last.op = "toggle" /\ last.court \notin Pre.disabledCourtsOnce) =>
        LET idx == findIndex(Pre.courts, last.court)
        IN  /\ disabledCourtsOnce = Pre.disabledCourtsOnce \cup {last.court}
            /\ playedCount = Pre.playedCount
            /\ participants = Pre.participants
            /\ IF HoldsGroup(Pre.courts[idx])
               THEN /\ teamQueue = <<TeamOf(Pre.courts[idx])>> \o Pre.teamQueue
                    /\ courts = [Pre.courts EXCEPT ![idx].team = NoTeam]
               ELSE /\ teamQueue = Pre.teamQueue
                    /\ courts = Pre.courts

\* A playing court was disabled while a group was queued and another court played.
C9_Witness ==
    /\ last.op = "toggle"
    /\ last.court \notin Pre.disabledCourtsOnce
    /\ HoldsGroup(Pre.courts[findIndex(Pre.courts, last.court)])
    /\ Pre.teamQueue # <<>>
    /\ Len(teamQueue) = Len(Pre.teamQueue) + 1
    /\ \E i \in 1..Len(courts) : HoldsGroup(courts[i])

\* C10: enabling a disabled court makes it enabled; if it has no group and a
\* group is queued, the first queued group moves onto it and every member's
\* last signature becomes that group's, the rest of the queue keeping its order;
\* otherwise courts, queue and signatures stay as they were.
C10_EnableSeatsQueueHead ==
    (last.op = "toggle" /\ last.court \in Pre.disabledCourtsOnce) =>
        LET idx == findIndex(Pre.courts, last.court)
        IN  /\ disabledCourtsOnce = Pre.disabledCourtsOnce \ {last.court}
            /\ IF ~HasTeam(Pre.courts[idx]) /\ Pre.teamQueue # <<>>
               THEN LET team == Head(Pre.teamQueue)
                    IN  /\ courts = [Pre.courts EXCEPT ![idx].team = <<team>>]
                        /\ teamQueue = Tail(Pre.teamQueue)
                        /\ \A n \in Range(team) :
                              /\ n \in DOMAIN lastTeamSigByPlayer
                              /\ lastTeamSigByPlayer[n] = teamSignature(team)
                        /\ \A n \in DOMAIN Pre.lastTeamSigByPlayer \ Range(team) :
                              /\ n \in DOMAIN lastTeamSigByPlayer
                              /\ lastTeamSigByPlayer[n] = Pre.lastTeamSigByPlayer[n]
               ELSE /\ courts = Pre.courts
                    /\ teamQueue = Pre.teamQueue
                    /\ lastTeamSigByPlayer = Pre.lastTeamSigByPlayer

\* A disabled court was enabled while two groups were queued: it took the first.
C10_Witness ==
    /\ last.op = "toggle"
    /\ last.court \in Pre.disabledCourtsOnce
    /\ Len(Pre.teamQueue) = 2
    /\ teamQueue = Tail(Pre.teamQueue)
    /\ HoldsGroup(courts[findIndex(courts, last.court)])

\* The groups of the courts of st above court n, in ascending court order.
RemovedGroups(st, n) ==
    LET removed == SelectSeq(SubSeq(st.courts, n + 1, Len(st.courts)), LAMBDA c : HasTeam(c))
    IN  [i \in 1..Len(removed) |-> TeamOf(removed[i])]

\* C11: applyCourtCount with n below the number of courts removes the courts
\* above n; their groups go to the front of the queue in ascending court order,
\* ahead of the groups queued before; courts 1..n keep their groups and names
\* and are numbered 1..n; the disabled ids above n leave the disabled set.
C11_ShrinkQueuesRemovedGroupsFirst ==
    LET n == IF last.court < 0 THEN 0 ELSE last.court IN
    (last.op = "courtCount" /\ n < Len(Pre.courts)) =>
        /\ Len(courts) = n
        /\ \A i \in 1..Len(courts) :
              /\ courts[i].id = i
              /\ courts[i].name = Pre.courts[i].name
              /\ courts[i].team = Pre.courts[i].team
        /\ teamQueue = RemovedGroups(Pre, n) \o Pre.teamQueue
        /\ disabledCourtsOnce = {id \in Pre.disabledCourtsOnce : id <= n}

\* Three courts became none: courts 2 and 3 held groups, court 1 was disabled
\* and a group was queued.
C11_Witness ==
    /\ last.op = "courtCount"
    /\ Len(Pre.courts) = 3
    /\ courts = <<>>
    /\ HoldsGroup(Pre.courts[2])
    /\ HoldsGroup(Pre.courts[3])
    /\ Pre.disabledCourtsOnce = {1}
    /\ disabledCourtsOnce = {}
    /\ Len(Pre.teamQueue) = 1
    /\ teamQueue = <<TeamOf(Pre.courts[2]), TeamOf(Pre.courts[3])>> \o Pre.teamQueue

\* The carry-over entries of st that are not resting, and the waiting entries
\* that are neither resting nor carried over.
EligiblePriority(st) == SelectSeq(st.priorityCarry, LAMBDA n : n \notin st.restOnce)

GenericPool(st) ==
    SelectSeq(st.participants,
              LAMBDA n : n \notin st.restOnce /\ n \notin Range(EligiblePriority(st)))

\* C12: when handleMakeTeams forms teams and the generic pool can top up the
\* carry-over players left after groups of 4 (or none are left), every eligible
\* carry-over player is in a group the run produced.
C12_PriorityPlayersAreGrouped ==
    (/\ Ran
     /\ \/ Len(EligiblePriority(Pre)) % 4 = 0
        \/ Len(GenericPool(Pre)) >= 4 - (Len(EligiblePriority(Pre)) % 4)) =>
        \A p \in Range(EligiblePriority(Pre)) :
            \E i \in 1..Len(Produced) : p \in Range(Produced[i])

\* C13: after handleMakeTeams ran with at least 4 eligible players the
\* carry-over holds at most 3 players.
C13_CarryOverAtMostThree ==
    (last.op = "makeTeams" /\ last.tag # "hung" /\ EligibleEntries(Pre) >= 4) =>
        Len(priorityCarry) <= 3

\* A run with seven eligible players, one carried over: one group, three left.
C13_Witness ==
    /\ last.op = "makeTeams"
    /\ EligibleEntries(Pre) = 7
    /\ Pre.priorityCarry # <<>>
    /\ Len(Produced) = 1
    /\ Len(priorityCarry) = 3

\* C14: the make-teams button is disabled exactly when handleMakeTeams would
\* return early for lack of 4 eligible players.
C14_DisabledExactlyWhenNoOp ==
    makeTeamsDisabled(State) <=> (totalAvailable(State) < TeamSize)

\* The members of a court, none for a court without a team.
CourtMembers(c) == IF HasTeam(c) THEN TeamOf(c) ELSE <<>>

\* The last command dropped a player on the chip of a player of another queued
\* group or of another, enabled, court.
IsSwap ==
    /\ last.op \in {"dropToQueueChip", "dropToCourtChip"}
    /\ last.op = "dropToQueueChip" =>
          ~(last.source.from = "queue" /\ last.source.teamIndex = last.drop.teamIndex)
    /\ last.op = "dropToCourtChip" =>
          /\ ~(last.source.from = "court" /\ last.source.courtId = last.drop.courtId)
          /\ last.drop.courtId \notin Pre.disabledCourtsOnce

\* The player on the chip.
SwappedOut ==
    IF last.op = "dropToQueueChip"
    THEN Pre.teamQueue[last.drop.teamIndex][last.drop.memberIndex]
    ELSE TeamOf(Pre.courts[findIndex(Pre.courts, last.drop.courtId)])[last.drop.memberIndex]

\* s with y at the source position, when s is the list the player was taken from.
SourceGets(s, from, index, y) == IF last.source.from = from THEN ReplaceAt(s, index, y) ELSE s

SwapQueue ==
    LET q == IF last.source.from = "queue"
             THEN [Pre.teamQueue EXCEPT ![last.source.teamIndex][last.source.memberIndex] =
                                            SwappedOut]
             ELSE Pre.teamQueue
    IN  IF last.op = "dropToQueueChip"
        THEN [q EXCEPT ![last.drop.teamIndex][last.drop.memberIndex] = last.source.name]
        ELSE q

SwapCourtMembers(i) ==
    LET c == Pre.courts[i]
        m == IF last.source.from = "court" /\ last.source.courtId = c.id
             THEN ReplaceAt(CourtMembers(c), last.source.memberIndex, SwappedOut)
             ELSE CourtMembers(c)
    IN  IF last.op = "dropToCourtChip" /\ last.drop.courtId = c.id
        THEN ReplaceAt(m, last.drop.memberIndex, last.source.name)
        ELSE m

\* C15: a swap leaves the dragged player on the chip's slot, the chip's player
\* at the position the dragged player was taken from, every other player where
\* it was, and the sizes of the source and the target as they were.
C15_SwapExchangesTwoPlayers ==
    (IsSwap /\ SwappedOut # Undefined) =>
        /\ participants =
              SourceGets(Pre.participants, "participants", last.source.fromIndex, SwappedOut)
        /\ priorityCarry =
              SourceGets(Pre.priorityCarry, "priority", last.source.fromIndex, SwappedOut)
        /\ teamQueue = SwapQueue
        /\ Len(courts) = Len(Pre.courts)
        /\ \A i \in 1..Len(courts) : CourtMembers(courts[i]) = SwapCourtMembers(i)

\* The last command was a drop the code rejects: into the container the
\* player came from, into a queued group or a court that has 4 members, or
\* onto a disabled court.
SameContainer ==
    \/ last.op = "dropToParticipants" /\ last.source.from = "participants"
    \/ last.op \in {"dropToPriorityContainer", "dropToPriorityChip"}
          /\ last.source.from = "priority"
    \/ last.op \in {"dropToQueueContainer", "dropToQueueChip"}
          /\ last.source.from = "queue" /\ last.source.teamIndex = last.drop.teamIndex
    \/ last.op \in {"dropToCourtContainer", "dropToCourtChip"}
          /\ last.source.from = "court" /\ last.source.courtId = last.drop.courtId

FullContainer ==
    \/ last.op = "dropToQueueContainer" /\ Len(Pre.teamQueue[last.drop.teamIndex]) >= 4
    \/ last.op = "dropToCourtContainer"
          /\ Len(CourtMembers(Pre.courts[findIndex(Pre.courts, last.drop.courtId)])) >= 4

OntoDisabledCourt ==
    /\ last.op \in {"dropToCourtContainer", "dropToCourtChip"}
    /\ last.drop.courtId \in Pre.disabledCourtsOnce

\* C16: a rejected drop leaves the whole state as it was.
C16_RejectedDropChangesNothing ==
    (SameContainer \/ FullContainer \/ OntoDisabledCourt) => State = Pre

\* A carried-over player was dropped on a court that has 4 members.
C16_Witness ==
    /\ FullContainer
    /\ ~SameContainer
    /\ ~OntoDisabledCourt
    /\ last.op = "dropToCourtContainer"
    /\ last.source.from = "priority"
    /\ last.source.name \in Range(priorityCarry)

\* The names of all the lists and groups of st, in lower case.
PresentLower(st) ==
    {toLowerCase(n) : n \in Range(st.participants) \cup Range(st.priorityCarry)
                          \cup Range(FlattenTeams(st.teamQueue))
                          \cup UNION {Range(CourtMembers(st.courts[i])) :
                                         i \in 1..Len(st.courts)}}

\* The entries of list that are, in lower case, neither in taken nor earlier in list.
NewNames(list, taken) ==
    LET keep == SelectSeq([i \in 1..Len(list) |-> i],
                          LAMBDA i : /\ toLowerCase(list[i]) \notin taken
                                     /\ \A j \in 1..(i - 1) :
                                           toLowerCase(list[j]) # toLowerCase(list[i]))
    IN  [k \in 1..Len(keep) |-> list[keep[k]]]

\* C17: addNamesNewOnly appends to the waiting players exactly the given names
\* that, compared without case, are in no list and no group yet, each once and
\* in input order; nothing else moves.
C17_AddAppendsOnlyUnseenNames ==
    last.op = "addNames" =>
        /\ participants = Pre.participants \o NewNames(last.list, PresentLower(Pre))
        /\ priorityCarry = Pre.priorityCarry
        /\ teamQueue = Pre.teamQueue
        /\ courts = Pre.courts

\* C18: handleConfirmNames makes the waiting players the given names without
\* the repeats (compared without case, first kept, input order), empties the
\* queue, the carry-over and the resting set, leaves courts, signatures and
\* disabled set alone, keeps every played count and gives 0 to the names that
\* had none.
C18_ConfirmReplacesWaitingList ==
    last.op = "confirmNames" =>
        /\ participants = NewNames(last.list, {})
        /\ teamQueue = <<>>
        /\ priorityCarry = <<>>
        /\ restOnce = {}
        /\ courts = Pre.courts
        /\ lastTeamSigByPlayer = Pre.lastTeamSigByPlayer
        /\ disabledCourtsOnce = Pre.disabledCourtsOnce
        /\ DOMAIN playedCount = DOMAIN Pre.playedCount \cup Range(participants)
        /\ \A n \in DOMAIN playedCount :
              playedCount[n] = IF n \in DOMAIN Pre.playedCount THEN Pre.playedCount[n] ELSE 0

\* A list with a repeat in another case replaced the waiting players while a
\* court played, a court was disabled, a group was queued and counts were above 0.
C18_Witness ==
    /\ last.op = "confirmNames"
    /\ Len(participants) < Len(last.list)
    /\ \E i \in 1..Len(courts) : HoldsGroup(courts[i])
    /\ disabledCourtsOnce # {}
    /\ Pre.teamQueue # <<>>
    /\ \E n \in DOMAIN playedCount : playedCount[n] > 0
    /\ \E n \in Range(participants) : n \notin DOMAIN Pre.playedCount

\* C19 as stated: no command lowers the played count of a player.
C19_CountsNeverDecrease ==
    \A n \in DOMAIN Pre.playedCount : getCount(playedCount, n) >= Pre.playedCount[n]

\* C19: no command but handleResetAll, which clears the counts, lowers or drops
\* the played count of a player.
C19_CountsDecreaseOnlyOnReset ==
    last.op # "reset" =>
        \A n \in DOMAIN Pre.playedCount :
            n \in DOMAIN playedCount /\ playedCount[n] >= Pre.playedCount[n]

\* A court was finished whose players had played before.
C19_Witness ==
    /\ last.op = "finish"
    /\ \E n \in DOMAIN Pre.playedCount :
          Pre.playedCount[n] > 0 /\ playedCount[n] = Pre.playedCount[n] + 1

\* Every draw from every shuffle of pool is an exact repeat that tryBreak cannot
\* break while more than 4 players are in the pool: the loop of step 3 takes its
\* reshuffle-and-retry branch on every iteration, whatever the draws.
EveryDrawRetries(st, pool) ==
    /\ Len(pool) > TeamSize
    /\ \A p \in shuffle(pool) :
          \A smp \in weightedSampleWithoutReplacement(p, TeamSize, st.playedCount) :
              /\ isExactRepeatTeam(st, smp.picked)
              /\ tryBreak(smp.picked, smp.pool, st.lastTeamSigByPlayer) = <<>>

\* C20: handleMakeTeams always returns: its loop of step 3 never comes to a pool
\* from which every draw makes it retry.
C20_MakeTeamsReturns ==
    last.op = "makeTeams" => ~(last.tag = "hung" /\ EveryDrawRetries(Pre, last.out.rest))

\* C21: of the commands, only toggleDisableCourtOnce, applyCourtCount with a
\* count below the number of courts and a confirmed handleResetAll change the set
\* of disabled courts; every other command leaves it as it was.  (Loading the
\* page again is not a command: it starts from an empty set.)
C21_DisabledSetChangesOnlyByThree ==
    (last.op # "reload" /\ disabledCourtsOnce # Pre.disabledCourtsOnce) =>
        \/ last.op = "toggle"
        \/ last.op = "courtCount" /\ clampCourtCount(last.court) < Len(Pre.courts)
        \/ last.op = "reset" /\ last.tag = "ok"

\* A match was finished, or a player was moved by hand, while a court was
\* disabled.
C21_Witness ==
    /\ last.op \in {"finish", "dropToParticipants", "dropToCourtContainer"}
    /\ State # [Pre EXCEPT !.disabledCourtsOnce = {}]
    /\ Pre.disabledCourtsOnce # {}
    /\ disabledCourtsOnce = Pre.disabledCourtsOnce

\* C22: the courts number at most 32 and the court at position i has id i; every
\* disabled id is the id of a court; the courts a larger count appends are empty,
\* enabled and carry their default names.
C22_CourtIdsDenseAndDisabledExist ==
    /\ Len(courts) <= MaxCourtCount
    /\ \A i \in 1..Len(courts) : courts[i].id = i
    /\ disabledCourtsOnce \subseteq 1..Len(courts)
    /\ (last.op = "courtCount" /\ Len(courts) > Len(Pre.courts)) =>
           \A i \in (Len(Pre.courts) + 1)..Len(courts) :
               /\ ~HasTeam(courts[i])
               /\ courts[i].name = DefaultName(i)
               /\ i \notin disabledCourtsOnce

\* The count was raised after it had been lowered below a disabled court: the
\* courts before are fewer than the largest id that was ever disabled.
C22_Witness ==
    /\ last.op = "courtCount"
    /\ Len(courts) > Len(Pre.courts)
    /\ Len(Pre.courts) = 1
    /\ Len(courts) = 3
    /\ Pre.disabledCourtsOnce = {1}

\* A count above 32 was entered.
C22_WitnessClamped ==
    /\ last.op = "courtCount"
    /\ last.court > MaxCourtCount
    /\ Len(courts) = MaxCourtCount

\* C23: after a confirmed handleResetAll nobody waits, is queued, carried over
\* or resting, no signature, played count or disabled court is kept and the
\* courts are two empty courts with ids 1 and 2 and their default names; after
\* a declined one the state is the state before.
C23_ResetRestoresInitialState ==
    last.op = "reset" =>
        IF last.tag = "ok"
        THEN /\ participants = <<>>
             /\ teamQueue = <<>>
             /\ priorityCarry = <<>>
             /\ restOnce = {}
             /\ DOMAIN lastTeamSigByPlayer = {}
             /\ DOMAIN playedCount = {}
             /\ disabledCourtsOnce = {}
             /\ Len(courts) = 2
             /\ \A i \in 1..2 : /\ courts[i].id = i
                                /\ courts[i].name = DefaultName(i)
                                /\ ~HasTeam(courts[i])
        ELSE State = Pre

\* A confirmed reset of a state with three courts, one of them disabled, one
\* playing, a queued team and played counts.
C23_Witness ==
    /\ last.op = "reset"
    /\ last.tag = "ok"
    /\ Len(Pre.courts) = 3
    /\ Pre.disabledCourtsOnce # {}
    /\ \E i \in 1..Len(Pre.courts) : HoldsGroup(Pre.courts[i])
    /\ Pre.teamQueue # <<>>
    /\ \E n \in DOMAIN Pre.playedCount : Pre.playedCount[n] > 0
    /\ DOMAIN Pre.lastTeamSigByPlayer # {}

\* A declined reset of such a state.
C23_WitnessDeclined ==
    /\ last.op = "reset"
    /\ last.tag = "declined"
    /\ Pre.disabledCourtsOnce # {}
    /\ Pre.participants # <<>>

\* C24: loading the page again gives the waiting players, queue, courts,
\* signatures, carry-over, resting set and played counts of the state that was
\* saved, and no disabled court.
C24_ReloadRestoresSavedState ==
    last.op = "reload" => State = [Pre EXCEPT !.disabledCourtsOnce = {}]

\* Every entry of the waiting pool, the carry-over, the queued teams and the
\* teams on court, one after the other.
AllEntries(st) ==
    st.participants \o st.priorityCarry \o FlattenTeams(st.teamQueue)
        \o FlattenTeams(CourtTeams(st.courts))

Occurrences(st, n) == Len(SelectSeq(AllEntries(st), LAMBDA x : x = n))

\* s and t hold every name equally often.
SamePlayers(s, t) ==
    \A n \in Range(AllEntries(s)) \cup Range(AllEntries(t)) :
        Occurrences(s, n) = Occurrences(t, n)

\* C25: a run of handleMakeTeams that returns, whether it formed teams or not,
\* leaves every name as often in the waiting pool, carry-over, queue and courts
\* together as it was before.
C25_MakeTeamsKeepsEveryPlayer ==
    (last.op = "makeTeams" /\ last.tag \in {"ok", "noop"}) => SamePlayers(Pre, State)

NoNameTwice(st) == \A n \in Range(AllEntries(st)) : Occurrences(st, n) <= 1

\* C26: no name occurs twice in the waiting pool, carry-over, queued teams and
\* teams on court together; stated of each button command: run in a state
\* without a repeated name, it leaves a state without one.
C26_EachNameAtMostOnce ==
    NoNameTwice(Pre) => NoNameTwice(State)

DropOps ==
    {"dropToParticipants", "dropToQueueContainer", "dropToQueueChip", "dropToCourtContainer",
     "dropToCourtChip", "dropToPriorityContainer", "dropToPriorityChip"}

\* C27: a drop, on a container or on a chip, leaves every player as often in
\* the waiting pool, carry-over, queue and courts together as before.
C27_MovesKeepEveryPlayer ==
    last.op \in DropOps =>
        \A n \in (Range(AllEntries(Pre)) \cup Range(AllEntries(State))) \ {Undefined} :
            Occurrences(State, n) = Occurrences(Pre, n)

\* Some exchange of a member of team with a player of tail is not an exact
\* repeat under the signatures of st.
Breakable(st, team, tail) ==
    \E gi \in 1..Len(team), tj \in 1..Len(tail) :
        ~isExactRepeatTeam(st, ReplaceAt(team, gi, tail[tj]))

\* C28: a team a run of handleMakeTeams emits is an exact repeat (each member's
\* last signature is the team's) only if no exchange of one member with one
\* player of the pool left at that moment gives a team that is not.
C28_RepeatOnlyWhenUnbreakable ==
    Ran => \A i \in 1..Len(Produced) :
              isExactRepeatTeam(Pre, Produced[i]) =>
                  ~Breakable(Pre, Produced[i], last.out.tailsOut[i])

\* A run emitted an exact repeat.
C28_Witness ==
    /\ Ran
    /\ \E i \in 1..Len(Produced) : isExactRepeatTeam(Pre, Produced[i])

\* A run drew an exact repeat and exchanged a member: the team emitted has
\* three members who last played together with one who is left in the pool.
C28_WitnessBroken ==
    /\ Ran
    /\ \E i \in 1..Len(Produced) :
          \E gi \in 1..Len(Produced[i]), tj \in 1..Len(last.out.tailsOut[i]) :
              isExactRepeatTeam(Pre, ReplaceAt(Produced[i], gi, last.out.tailsOut[i][tj]))

\* No name is twice among the waiting players and the carry-over of st.
DistinctWaiting(st) ==
    LET all == st.participants \o st.priorityCarry
    IN  \A i, j \in 1..Len(all) : all[i] = all[j] => i = j

\* C29: when no name is twice among the waiting players and the carry-over, a
\* run of handleMakeTeams never takes the reshuffle-and-retry branch, and a team
\* it emits is an exact repeat only if no player was left in the pool when it
\* was emitted.
C29_DistinctNamesAlwaysBreak ==
    (last.op = "makeTeams" /\ last.tag \in {"ok", "hung"} /\ DistinctWaiting(Pre)) =>
        /\ ~last.out.retried
        /\ \A i \in 1..Len(Produced) :
              isExactRepeatTeam(Pre, Produced[i]) => last.out.tailsOut[i] = <<>>

\* With distinct names waiting, a run drew four who last played together in
\* step 3 while a fifth waited, and exchanged one of them.
C29_Witness ==
    /\ Ran
    /\ DistinctWaiting(Pre)
    /\ Pre.priorityCarry = <<>>
    /\ \E i \in 1..Len(Produced) :
          /\ last.out.tailsOut[i] # <<>>
          /\ \E gi \in 1..TeamSize, tj \in 1..Len(last.out.tailsOut[i]) :
                isExactRepeatTeam(Pre, ReplaceAt(Produced[i], gi, last.out.tailsOut[i][tj]))

\* C30: a run of handleMakeTeams with 4 or more eligible players emits at least
\* one new team.
C30_RunProducesATeam ==
    Ran => Len(Produced) >= 1

\* C31: after a successful run of handleMakeTeams with a team left queued,
\* every court that is not disabled holds at least one player.
C31_NoQueueBesideFreeCourt ==
    (Ran /\ teamQueue # <<>>) =>
        \A i \in 1..Len(courts) :
            courts[i].id \notin disabledCourtsOnce => HoldsGroup(courts[i])

\* C32: every queued team has a member and every court has either no team or a
\* team with a member.
C32_NoEmptyGroupStored ==
    /\ \A i \in 1..Len(teamQueue) : Len(teamQueue[i]) >= 1
    /\ \A i \in 1..Len(courts) : HasTeam(courts[i]) => Len(TeamOf(courts[i])) >= 1

\* The teams post has on the courts that had no team in pre or were finished
\* (finished is the id of the court finished, 0 for none), in ascending court
\* order.
NewlySeated(pre, post, finished) ==
    LET taken == SelectSeq([i \in 1..Len(post.courts) |-> i],
                           LAMBDA i : /\ HasTeam(post.courts[i])
                                      /\ (~HasTeam(pre.courts[i])
                                            \/ pre.courts[i].id = finished))
    IN  [j \in 1..Len(taken) |-> TeamOf(post.courts[taken[j]])]

SeatedByLast == NewlySeated(Pre, State, IF last.op = "finish" THEN last.court ELSE 0)

\* C33: handleMakeTeams, handleFinishCourt and toggleDisableCourtOnce seat the
\* queued teams from the front: the teams seated begin with the first k queued
\* teams, the other queued teams stay queued in their order, and while one of
\* them stays queued no other team is seated.
C33_QueueSeatedFromFront ==
    LET q == Pre.teamQueue
        seated == SeatedByLast
    IN  (Ran \/ last.op \in {"finish", "toggle"}) =>
            \E k \in 0..Len(q) :
                /\ Len(seated) >= k
                /\ SubSeq(seated, 1, k) = SubSeq(q, 1, k)
                /\ k < Len(q) => Len(seated) = k
                /\ last.op # "makeTeams" => k <= 1
                /\ \E m \in 0..1 :
                      /\ Len(teamQueue) >= m + Len(q) - k
                      /\ SubSeq(teamQueue, m + 1, m + Len(q) - k) = SubSeq(q, k + 1, Len(q))
                      /\ m = 1 => (last.op = "toggle" /\ k = 0)

\* Of two queued teams the first was seated and the second stayed queued.
C33_Witness ==
    /\ last.op \in {"finish", "toggle", "makeTeams"}
    /\ Len(Pre.teamQueue) = 2
    /\ Pre.teamQueue[1] # Pre.teamQueue[2]
    /\ SeatedByLast = <<Pre.teamQueue[1]>>
    /\ teamQueue = <<Pre.teamQueue[2]>>

\* C34: after handleMakeTeams, handleFinishCourt or toggleDisableCourtOnce has
\* put teams on courts, every member of such a team has the team's signature as
\* last signature, and the players of no such team (those of a team only queued
\* among them) have the last signature they had, or none.
C34_SeatedTeamsAreRecorded ==
    LET seatedNames == UNION {Range(SeatedByLast[i]) : i \in 1..Len(SeatedByLast)}
    IN  (Ran \/ last.op \in {"finish", "toggle"}) =>
            /\ \A i \in 1..Len(SeatedByLast) :
                  \A n \in Members(SeatedByLast[i]) :
                      /\ n \in DOMAIN lastTeamSigByPlayer
                      /\ lastTeamSigByPlayer[n] = teamSignature(SeatedByLast[i])
            /\ \A n \in (DOMAIN lastTeamSigByPlayer \cup DOMAIN Pre.lastTeamSigByPlayer)
                          \ seatedNames :
                  /\ n \in DOMAIN Pre.lastTeamSigByPlayer
                  /\ n \in DOMAIN lastTeamSigByPlayer
                  /\ lastTeamSigByPlayer[n] = Pre.lastTeamSigByPlayer[n]

\* How often n stands in the sequence s.
CountIn(s, n) == Len(SelectSeq(s, LAMBDA x : x = n))

\* The eligible carry-over players that steps 1 and 2 leave in no team: those
\* after the last full four, unless the generic pool can top them up.
PriorityLeftOver(st) ==
    LET prio == EligiblePriority(st)
        r == Len(prio) % 4
    IN  IF r > 0 /\ Len(GenericPool(st)) < 4 - r
        THEN SubSeq(prio, Len(prio) - r + 1, Len(prio))
        ELSE <<>>

\* C35: after a successful run of handleMakeTeams the carry-over is the carry-over
\* players that could not be topped up, in their order, followed by fewer than 4
\* players, which with the members of the teams formed are the eligible players
\* of before; the waiting pool is the players that waited and were resting, in
\* their order of before.
C35_CarryOverAndWaitingPool ==
    Ran =>
        LET left == PriorityLeftOver(Pre)
            before == EligiblePriority(Pre) \o GenericPool(Pre)
            after == FlattenTeams(Produced) \o priorityCarry
        IN  /\ Len(priorityCarry) >= Len(left)
            /\ SubSeq(priorityCarry, 1, Len(left)) = left
            /\ Len(priorityCarry) - Len(left) < 4
            /\ \A n \in Range(before) \cup Range(after) : CountIn(after, n) = CountIn(before, n)
            /\ participants = SelectSeq(Pre.participants, LAMBDA n : n \in Pre.restOnce)

\* A run left one generic player over and put two resting players back.
C35_Witness ==
    /\ Ran
    /\ Len(priorityCarry) > Len(PriorityLeftOver(Pre))
    /\ Len(participants) >= 2
    /\ participants[1] # participants[2]

\* A run left a carry-over player in no team, with a generic player after it.
C35_WitnessLeftOver ==
    /\ Ran
    /\ PriorityLeftOver(Pre) # <<>>
    /\ Len(priorityCarry) > Len(PriorityLeftOver(Pre))

\* avgCount(a) <= avgCount(b) for teams with members.
MeanAtMost(counts, a, b) == SumCounts(counts, a) * Len(b) <= SumCounts(counts, b) * Len(a)

AscendingByMean(counts, teams) ==
    \A i \in 1..(Len(teams) - 1) : MeanAtMost(counts, teams[i], teams[i + 1])

\* C36: the sequence of new groups handleMakeTeams seats from is the groups
\* formed from the carry-over, in the order they were formed in, followed by the
\* generic groups in an order in which the mean played count of the members
\* never decreases.
C36_PriorityThenAscendingMean ==
    last.op = "newTeamsInOrder" =>
        \E generic \in Orderings(last.out.otherTeamsOut) :
            /\ AscendingByMean(playedCount, generic)
            /\ last.result = last.out.priorityTeamsOut \o generic

\* Three generic groups were drawn with the highest mean first and the lowest
\* last, after a carry-over group whose mean is higher than theirs.
C36_Witness ==
    /\ last.op = "newTeamsInOrder"
    /\ Len(last.out.priorityTeamsOut) = 1
    /\ Len(last.out.otherTeamsOut) = 3
    /\ \A i \in 1..2 : ~MeanAtMost(playedCount, last.out.otherTeamsOut[i],
                                   last.out.otherTeamsOut[i + 1])
    /\ ~MeanAtMost(playedCount, last.out.priorityTeamsOut[1], last.out.otherTeamsOut[1])
    /\ last.result[1] = last.out.priorityTeamsOut[1]
    /\ last.result[2] = last.out.otherTeamsOut[3]

\* The same of the groups a successful run of handleMakeTeams seats and queues,
\* taken in court order and then in queue order.
C36_SeatingFollowsOrder ==
    Ran => \E generic \in Orderings(last.out.otherTeamsOut) :
              /\ AscendingByMean(Pre.playedCount, generic)
              /\ SeatedInOrder(Pre, State,
                               Pre.teamQueue \o last.out.priorityTeamsOut \o generic)

\* C37: isExactRepeatTeamWithMap is true exactly when the team has 4 members and
\* the map holds the team's signature for each of them; so it is false for a team
\* of another size and for a team with a member the map holds nothing or
\* another signature for.
C37_RepeatIffFourAndAllRecorded ==
    last.op = "isExactRepeatTeamWithMap" =>
        LET team == last.args[1]
            map == last.args[2]
            recorded(n) == n \in DOMAIN map /\ map[n] = teamSignature(team)
        IN  /\ last.result = TRUE <=> (Len(team) = 4 /\ \A n \in Range(team) : recorded(n))
            /\ Len(team) # 4 => last.result = FALSE
            /\ (\E n \in Range(team) : ~recorded(n)) => last.result = FALSE

\* The call is true of a team of four in another order than it started in.
C37_Witness ==
    /\ last.op = "isExactRepeatTeamWithMap"
    /\ last.result = TRUE
    /\ last.args[1] = <<"d", "c", "b", "a">>

\* The call is false of a team of three whose members all hold its signature.
C37_WitnessThree ==
    /\ last.op = "isExactRepeatTeamWithMap"
    /\ last.result = FALSE
    /\ Len(last.args[1]) = 3
    /\ \A n \in Range(last.args[1]) :
          n \in DOMAIN last.args[2] /\ last.args[2][n] = teamSignature(last.args[1])

\* The call is false of a team of four of which one member holds another signature.
C37_WitnessOther ==
    /\ last.op = "isExactRepeatTeamWithMap"
    /\ last.result = FALSE
    /\ Len(last.args[1]) = 4
    /\ \E n \in Range(last.args[1]) :
          n \in DOMAIN last.args[2] /\ last.args[2][n] # teamSignature(last.args[1])
    /\ \E n \in Range(last.args[1]) :
          n \in DOMAIN last.args[2] /\ last.args[2][n] = teamSignature(last.args[1])

NoRepeats(s) == \A i, j \in 1..Len(s) : i # j => s[i] # s[j]

\* C38: weightedSampleWithoutReplacement(list, k) returns min(k, length of list)
\* picked items and a remainder which together hold every item as often as the
\* list; so it never picks more than the list holds and, from a list without
\* repeats, picks no item twice.
C38_SampleIsPartOfAPermutation ==
    last.op = "weightedSampleWithoutReplacement" =>
        LET list == last.args[1]
            k == last.args[2]
            picked == last.result.picked
            rest == last.result.pool
        IN  /\ Len(picked) = (IF k < Len(list) THEN k ELSE Len(list))
            /\ \A n \in Range(list) \cup Range(picked \o rest) :
                  CountIn(picked \o rest, n) = CountIn(list, n)
            /\ Len(picked) <= Len(list)
            /\ NoRepeats(list) => NoRepeats(picked)

\* Three of five names were picked, not the first three and not in list order,
\* by players with different weights.
C38_Witness ==
    /\ last.op = "weightedSampleWithoutReplacement"
    /\ last.args = <<<<"a", "b", "c", "d", "e">>, 3>>
    /\ last.result.picked = <<"e", "c", "a">>
    /\ last.result.pool = <<"b", "d">>
    /\ getCount(playedCount, "a") # getCount(playedCount, "e")

\* More was asked for than the list holds: the whole list was picked.
C38_WitnessAll ==
    /\ last.op = "weightedSampleWithoutReplacement"
    /\ last.args[2] > Len(last.args[1])
    /\ Len(last.result.picked) = 3
    /\ last.result.pool = <<>>

\* t is s in another order.
IsPermutationOf(s, t) ==
    /\ Len(s) = Len(t)
    /\ \A n \in Range(s) \cup Range(t) : CountIn(s, n) = CountIn(t, n)

\* C39: teamSignature gives the same result for two lists that hold the same
\* names in two orders, and for two lists of different names it gives equal
\* results only if the lists hold the same set of names.
C39_SignatureIdentifiesTheNameSet ==
    last.op = "teamSignature" =>
        /\ IsPermutationOf(last.args[1], last.args[2]) => last.result[1] = last.result[2]
        /\ last.result[1] = last.result[2] => Range(last.args[1]) = Range(last.args[2])

\* The half of C39 about orders: two orders of the same names have one signature.
C39_SignatureIgnoresOrder ==
    last.op = "teamSignature" =>
        (IsPermutationOf(last.args[1], last.args[2]) => last.result[1] = last.result[2])

\* Two different orders of four names were given the same signature.
C39_WitnessOrders ==
    /\ last.op = "teamSignature"
    /\ Len(last.args[1]) = 4
    /\ last.args[1] # last.args[2]
    /\ IsPermutationOf(last.args[1], last.args[2])
    /\ last.result[1] = last.result[2]

====
